---- MODULE Spec2Model ----
(***************************************************************************)
(* A model of pyfar's audio containers (src/pyfar/signal.py): the Signal   *)
(* class with its lazily converted time / frequency buffer, and the        *)
(* arithmetic functions add, subtract, multiply, divide and power.         *)
(*                                                                         *)
(* Python objects live in `sigs` (object id -> attributes of a Signal),    *)
(* numpy arrays in `heap` (buffer id -> base array).  A Signal's _data is  *)
(* a handle: a buffer id, the rows of that buffer it selects and a shape,  *)
(* which is what a numpy view is.  Sample values are symbolic: a row       *)
(* (one channel's samples or bins) is a postfix term over client data,     *)
(* numbers, and the transforms applied to them.                            *)
(***************************************************************************)
EXTENDS Integers, Sequences, FiniteSets, TLC

VARIABLES
    sigs,    \* object id -> [data, domain, n_samples, sampling_rate, fft_norm]
    heap,    \* buffer id -> [kind, len, rows]
    op,      \* the operation performed by the last step: [name, o, a]
    args,    \* the operand tuple and domain of the last arithmetic call
    calls,   \* the calls into pyfar.fft made by the last step, in order
    warns,   \* the number of warnings the last step emitted
    err,     \* the exception the last step raised, "" if it returned
    result,  \* what the last step returned
    iter,    \* the SignalIterator the client holds, if any
    axis_modifier  \* the AxisModifierLines of the plot on screen, if any

vars == <<sigs, heap, op, args, calls, warns, err, result, iter,
          axis_modifier>>

----------------------------------------------------------------------------
(* Bounds of the model. *)

\* longest trailing axis of an array a client passes in
MaxLen == 3
\* number of distinct client data contents
MaxContent == 1
\* longest term a row may carry before a step that would lengthen it is cut
MaxTerm == 3
\* most lines a plot has
MaxLines == 5

----------------------------------------------------------------------------
(* Parameter spaces, _Audio.__init__ *)

VALID_DOMAINS == {"time", "freq"}

VALID_FFT_NORMS == {"none", "unitary", "amplitude", "rms", "power", "psd"}

\* sampling rates the clients of the model use
SamplingRates == {44100, 48000}

----------------------------------------------------------------------------
(* Sequences and shapes (numpy) *)

Last(s) == s[Len(s)]

Front(s) == SubSeq(s, 1, Len(s) - 1)

RECURSIVE Prod(_)
Prod(s) == IF s = <<>> THEN 1 ELSE s[1] * Prod(Tail(s))

Max(a, b) == IF a >= b THEN a ELSE b

SetMax(S) == CHOOSE x \in S : \A y \in S : y <= x

\* length of the trailing axis; a 0-d array holds one element
RowLen(shape) == IF shape = <<>> THEN 1 ELSE Last(shape)

\* shape without the trailing axis (cshape)
CShape(shape) == IF shape = <<>> THEN <<>> ELSE Front(shape)

NRows(shape) == Prod(CShape(shape))

atleast_2d(shape) ==
    IF Len(shape) = 0 THEN <<1, 1>>
    ELSE IF Len(shape) = 1 THEN <<1, shape[1]>>
    ELSE shape

\* 0-based flat index -> index tuple, row-major
RECURSIVE Unravel(_, _)
Unravel(i, shape) ==
    IF shape = <<>> THEN <<>>
    ELSE LET rest == Prod(Tail(shape))
         IN  <<i \div rest>> \o Unravel(i % rest, Tail(shape))

RECURSIVE Ravel(_, _)
Ravel(idx, shape) ==
    IF shape = <<>> THEN 0
    ELSE idx[1] * Prod(Tail(shape)) + Ravel(Tail(idx), Tail(shape))

\* shape padded on the left with 1s to n axes
PadLeft(shape, n) == [i \in 1..(n - Len(shape)) |-> 1] \o shape

BroadcastOK(sa, sb) ==
    LET n == Max(Len(sa), Len(sb))
        a == PadLeft(sa, n)
        b == PadLeft(sb, n)
    IN  \A i \in 1..n : a[i] = b[i] \/ a[i] = 1 \/ b[i] = 1

BroadcastShape(sa, sb) ==
    LET n == Max(Len(sa), Len(sb))
        a == PadLeft(sa, n)
        b == PadLeft(sb, n)
    IN  [i \in 1..n |-> IF a[i] = 1 THEN b[i] ELSE a[i]]

\* 1-based row of an operand of cshape `cs` that the 1-based row r of the
\* broadcast result of cshape `rcs` reads
BroadcastRow(r, cs, rcs) ==
    LET p   == PadLeft(cs, Len(rcs))
        idx == Unravel(r - 1, rcs)
        own == [i \in 1..Len(rcs) |-> IF p[i] = 1 THEN 0 ELSE idx[i]]
    IN  Ravel(own, p) + 1

----------------------------------------------------------------------------
(* Symbolic sample values.  A row is a postfix term: a sequence of tokens. *)

Tok(k, c, n, m) == [k |-> k, c |-> c, n |-> n, m |-> m]

\* channel ch of the client data with content id
SrcRow(kind, id, ch) == <<Tok("src", kind, id, ch)>>

\* a row whose elements all equal the number v
NumRow(v) == <<Tok("num", "", v, 0)>>

\* token b undoes token a
Cancels(a, b) ==
    \/ a.k = "rfft" /\ b.k = "irfft" /\ a.n = b.n /\ a.m = a.n
    \/ a.k = "irfft" /\ b.k = "rfft" /\ a.n = b.n /\ a.m = a.n \div 2 + 1
    \/ a.k = "norm" /\ b.k = "denorm" /\ a.c = b.c /\ a.n = b.n /\ a.m = b.m
    \/ a.k = "denorm" /\ b.k = "norm" /\ a.c = b.c /\ a.n = b.n /\ a.m = b.m

Push(row, t) ==
    IF Len(row) > 0 /\ Cancels(Last(row), t) THEN Front(row) ELSE Append(row, t)

\* an array value: [shape, kind, rows]
Arr(shape, kind, rows) == [shape |-> shape, kind |-> kind, rows |-> rows]

\* client data of content id: one row per channel
ClientArr(shape, kind, id) ==
    Arr(shape, kind, [i \in 1..NRows(shape) |-> SrcRow(kind, id, i)])

\* an array filled with the number v
NumArr(shape, kind, v) ==
    Arr(shape, kind, [i \in 1..NRows(shape) |-> NumRow(v)])

\* F applied to the value of v, which is computed once
Bind(v, F(_)) == CHOOSE r \in {F(x) : x \in {v}} : TRUE

MapRows(a, F(_)) ==
    LET G(x) == [x EXCEPT !.rows = [i \in DOMAIN x.rows |-> F(x.rows[i])]]
    IN  Bind(a, G)

\* the elements of the row are real numbers
IsRealRow(row) ==
    \/ row = <<>>
    \/ Last(row).k \in {"real", "irfft", "num"}
    \/ Last(row).k = "src" /\ Last(row).c \notin {"complex64", "complex128"}

\* the real parts of a row
RealPart(row) ==
    IF IsRealRow(row) THEN row ELSE Append(row, Tok("real", "", 0, 0))

\* ndarray.astype(kind): a complex array cast to a real kind keeps the real
\* parts
astype(a, kind) ==
    IF a.kind \in {"complex64", "complex128"}
          /\ kind \notin {"complex64", "complex128"}
    THEN [MapRows(a, RealPart) EXCEPT !.kind = kind]
    ELSE [a EXCEPT !.kind = kind]

----------------------------------------------------------------------------
(* pyfar.fft, the transform service *)

_n_bins(n_samples) == n_samples \div 2 + 1

normalization(a, n_samples, sampling_rate, fft_norm, inverse) ==
    IF fft_norm = "none" THEN a
    ELSE LET t == Tok(IF inverse THEN "denorm" ELSE "norm",
                      fft_norm, n_samples, sampling_rate)
             F(row) == Push(row, t)
         IN  MapRows(a, F)

rfft(a, n_samples, sampling_rate, fft_norm) ==
    LET t == Tok("rfft", "", n_samples, RowLen(a.shape))
        F(row) == Push(row, t)
        spec == [MapRows(a, F) EXCEPT
                    !.shape = CShape(a.shape) \o <<_n_bins(n_samples)>>,
                    !.kind = "complex128"]
    IN  normalization(spec, n_samples, sampling_rate, fft_norm, FALSE)

irfft(a, n_samples, sampling_rate, fft_norm) ==
    LET den == normalization(a, n_samples, sampling_rate, fft_norm, TRUE)
        t == Tok("irfft", "", n_samples, RowLen(a.shape))
        F(row) == Push(row, t)
    IN  [MapRows(den, F) EXCEPT
            !.shape = CShape(a.shape) \o <<n_samples>>,
            !.kind = "float64"]

\* the bin frequencies k * sampling_rate / n_samples of n_samples samples,
\* one for each of the _n_bins(n_samples) bins
rfftfreq(n_samples, sampling_rate) ==
    Arr(<<_n_bins(n_samples)>>, "float64",
        <<<<Tok("rfftfreq", "", n_samples, sampling_rate)>>>>)

----------------------------------------------------------------------------
(* The interpreter state a handler works on, and numpy arrays in the heap *)

\* the handle a handler returns when it returns no array
NoHandle == [buf |-> 0, chans |-> <<>>, shape |-> <<>>]

\* no plot. Of an AxisModifierLines, lines is axes.lines, each line by its
\* visibility, index is cycle.index, current_line is the position in
\* axes.lines of the line current_line refers to
NoModifier == [lines |-> <<>>, index |-> 0, current_line |-> 0,
               all_visible |-> TRUE]

\* no second SignalIterator
NoOther == [signal |-> 0, iterated_sig |-> 0, array |-> NoHandle, pos |-> 0,
            tag |-> ""]

\* no SignalIterator. Of an iterator, signal and iterated_sig are the objects
\* _signal and _iterated_sig, array and pos are _array_iterator (the array it
\* runs over and the index it is at), and tag records the domain of _signal
\* when __next__ was last called; other is a second SignalIterator the client
\* holds, with the same attributes
NoIter == [signal |-> 0, iterated_sig |-> 0, array |-> NoHandle, pos |-> 0,
           tag |-> "", other |-> NoOther]

Cur == [sigs |-> sigs, heap |-> heap, calls |-> <<>>, warns |-> 0,
        err |-> "", ret |-> NoHandle, iter |-> iter]

\* the interpreter before any object exists
Empty == [sigs |-> <<>>, heap |-> <<>>, calls |-> <<>>, warns |-> 0,
          err |-> "", ret |-> NoHandle, iter |-> NoIter]

Raise(st, e) == IF st.err = "" THEN [st EXCEPT !.err = e] ELSE st

Call(st, k, c, n, m) == [st EXCEPT !.calls = Append(@, Tok(k, c, n, m))]

Warn(st) == [st EXCEPT !.warns = @ + 1]

NewId(st) == SetMax({0} \cup DOMAIN st.heap) + 1

\* a handle on all of a freshly stored array
Whole(id, shape) ==
    [buf |-> id, chans |-> [i \in 1..NRows(shape) |-> i], shape |-> shape]

\* the state with array a stored as buffer NewId(st)
Store(st, a) ==
    [st EXCEPT !.heap = (NewId(st) :> [kind |-> a.kind, len |-> RowLen(a.shape),
                                       rows |-> a.rows]) @@ @]

\* the array a handle views
View(st, h) ==
    Arr(h.shape, st.heap[h.buf].kind,
        [i \in 1..Len(h.chans) |-> st.heap[h.buf].rows[h.chans[i]]])

\* the state with array a stored as a new buffer, st.ret the handle on it
New(st, a) ==
    LET F(x) == [Store(st, x) EXCEPT !.ret = Whole(NewId(st), x.shape)]
    IN  Bind(a, F)

\* np.atleast_2d of an array: a view of the same buffer
Handle2d(h) == [h EXCEPT !.shape = atleast_2d(@)]

\* np.asarray(x, dtype): the array itself when it has the dtype, else a copy
AsArray(st, h, kind) ==
    IF st.heap[h.buf].kind = kind THEN [st EXCEPT !.ret = h]
    ELSE New(st, astype(View(st, h), kind))

\* ndarray.copy()
CopyArr(st, h) == New(st, View(st, h))

\* handler F continues from st unless st has raised
Then(st, F(_)) ==
    LET G(s) == IF s.err # "" THEN s ELSE F(s)
    IN  Bind(st, G)

----------------------------------------------------------------------------
(* class Signal *)

\* the absent value None of an optional integer argument
None == -1

\* TimeData.time.setter
TimeData_time_setter(st, o, h) ==
    LET data == Handle2d(h)
    IN  [st EXCEPT !.sigs[o].data = data,
                   !.sigs[o].n_samples = RowLen(data.shape),
                   !.sigs[o].domain = "time"]

\* FrequencyData.freq.setter
FrequencyData_freq_setter(st, o, h) ==
    [st EXCEPT !.sigs[o].data = Handle2d(Handle2d(h)),
               !.sigs[o].domain = "freq"]

\* Signal.n_bins
n_bins(sg) == _n_bins(sg.n_samples)

\* Signal.freq.setter that always takes the assume-even path
Signal_freq_setter_assume_even(st, o, h) ==
    LET s1 == FrequencyData_freq_setter(st, o, h)
        sg == s1.sigs[o]
    IN  [Warn(s1) EXCEPT
            !.sigs[o].n_samples = (RowLen(sg.data.shape) - 1) * 2]

\* Signal.freq.setter that never recomputes n_samples
Signal_freq_setter_keeps_n(st, o, h) ==
    FrequencyData_freq_setter(st, o, h)

\* Signal.freq.setter
Signal_freq_setter(st, o, h) ==
    LET s1 == FrequencyData_freq_setter(st, o, h)
        sg == s1.sigs[o]
    IN  IF RowLen(sg.data.shape) = n_bins(sg)
        THEN [s1 EXCEPT !.sigs[o].n_samples = sg.n_samples]
        ELSE [Warn(s1) EXCEPT
                 !.sigs[o].n_samples = (RowLen(sg.data.shape) - 1) * 2]

\* the conversion of Signal.domain.setter
Convert(st, o, new_domain) ==
    LET sg == st.sigs[o]
    IN  IF new_domain = "time"
        THEN LET s1 == Call(st, "irfft", sg.fft_norm, sg.n_samples,
                            sg.sampling_rate)
                 T(x) == irfft(x, sg.n_samples, sg.sampling_rate, sg.fft_norm)
                 F(s) == TimeData_time_setter(s, o, s.ret)
             IN  IF sg.n_samples < 1 THEN Raise(s1, "ValueError")
                 ELSE Bind(New(s1, Bind(View(st, sg.data), T)), F)
        ELSE LET s1 == Call(st, "rfft", sg.fft_norm, sg.n_samples,
                            sg.sampling_rate)
                 T(x) == rfft(x, sg.n_samples, sg.sampling_rate, sg.fft_norm)
                 F(s) == Signal_freq_setter(s, o, s.ret)
             IN  IF sg.n_samples < 1 THEN Raise(s1, "ValueError")
                 ELSE Bind(New(s1, Bind(View(st, sg.data), T)), F)

\* Signal.domain.setter that converts on every call
Signal_domain_setter_always(st, o, new_domain) ==
    IF new_domain \notin VALID_DOMAINS THEN Raise(st, "ValueError")
    ELSE Convert(st, o, new_domain)

\* Signal.domain.setter
Signal_domain_setter(st, o, new_domain) ==
    IF new_domain \notin VALID_DOMAINS THEN Raise(st, "ValueError")
    ELSE IF st.sigs[o].domain = new_domain THEN st
    ELSE Convert(st, o, new_domain)

\* Signal.time (getter): returns the buffer itself
Signal_time(st, o) ==
    LET s1 == Signal_domain_setter(st, o, "time")
        F(s) == [s EXCEPT !.ret = s.sigs[o].data]
    IN  Then(s1, F)

\* Signal.freq (getter): returns the buffer itself
Signal_freq(st, o) ==
    LET s1 == Signal_domain_setter(st, o, "freq")
        F(s) == [s EXCEPT !.ret = s.sigs[o].data]
    IN  Then(s1, F)

\* Signal.sampling_rate.setter
Signal_sampling_rate_setter(st, o, value) ==
    [st EXCEPT !.sigs[o].sampling_rate = value]

\* np.arange(0, n) / sampling_rate: the n numbers k / sampling_rate
arange_over(n, sampling_rate) ==
    Arr(<<n>>, "float64", <<<<Tok("arange", "", n, sampling_rate)>>>>)

\* times that has one entry for each sample of the buffer
Signal_times_from_data(st, o) ==
    New(st, arange_over(RowLen(st.sigs[o].data.shape),
                        st.sigs[o].sampling_rate))

\* Signal.times
Signal_times(st, o) ==
    New(st, arange_over(st.sigs[o].n_samples, st.sigs[o].sampling_rate))

\* Signal.frequencies; no bin frequencies exist for 0 samples
Signal_frequencies(st, o) ==
    IF st.sigs[o].n_samples < 1 THEN Raise(st, "ZeroDivisionError")
    ELSE New(st, rfftfreq(st.sigs[o].n_samples, st.sigs[o].sampling_rate))

\* Signal.fft_norm.setter that applies the new convention before it removes
\* the old one
Signal_fft_norm_setter_swapped(st, o, value) ==
    LET sg == st.sigs[o]
    IN  IF value \notin VALID_FFT_NORMS THEN Raise(st, "ValueError")
        ELSE IF sg.fft_norm # value /\ sg.domain = "freq"
        THEN LET s1 == Call(st, "norm", value, sg.n_samples, sg.sampling_rate)
                 d1 == normalization(View(st, sg.data), sg.n_samples,
                                     sg.sampling_rate, value, FALSE)
                 s2 == Call(s1, "denorm", sg.fft_norm, sg.n_samples,
                            sg.sampling_rate)
                 d2 == normalization(d1, sg.n_samples, sg.sampling_rate,
                                     sg.fft_norm, TRUE)
                 F(s) == [s EXCEPT !.sigs[o].data = s.ret,
                                   !.sigs[o].fft_norm = value]
             IN  Bind(New(s2, d2), F)
        ELSE [st EXCEPT !.sigs[o].fft_norm = value]

\* Signal.fft_norm.setter that re-normalizes the buffer in either domain
Signal_fft_norm_setter_any_domain(st, o, value) ==
    LET sg == st.sigs[o]
    IN  IF value \notin VALID_FFT_NORMS THEN Raise(st, "ValueError")
        ELSE IF sg.fft_norm # value
        THEN LET s1 == Call(st, "denorm", sg.fft_norm, sg.n_samples,
                            sg.sampling_rate)
                 d1 == normalization(View(st, sg.data), sg.n_samples,
                                     sg.sampling_rate, sg.fft_norm, TRUE)
                 s2 == Call(s1, "norm", value, sg.n_samples, sg.sampling_rate)
                 d2 == normalization(d1, sg.n_samples, sg.sampling_rate,
                                     value, FALSE)
                 F(s) == [s EXCEPT !.sigs[o].data = s.ret,
                                   !.sigs[o].fft_norm = value]
             IN  Bind(New(s2, d2), F)
        ELSE [st EXCEPT !.sigs[o].fft_norm = value]

\* Signal.fft_norm.setter that assigns the label before it checks the name
Signal_fft_norm_setter_label_first(st, o, value) ==
    IF value \notin VALID_FFT_NORMS
    THEN Raise([st EXCEPT !.sigs[o].fft_norm = value], "ValueError")
    ELSE [st EXCEPT !.sigs[o].fft_norm = value]

\* Signal.fft_norm.setter that applies the new convention on top of the old
\* one
Signal_fft_norm_setter_no_inverse(st, o, value) ==
    LET sg == st.sigs[o]
    IN  IF value \notin VALID_FFT_NORMS THEN Raise(st, "ValueError")
        ELSE IF sg.fft_norm # value /\ sg.domain = "freq"
        THEN LET s1 == Call(st, "denorm", sg.fft_norm, sg.n_samples,
                            sg.sampling_rate)
                 d1 == View(st, sg.data)
                 s2 == Call(s1, "norm", value, sg.n_samples, sg.sampling_rate)
                 d2 == normalization(d1, sg.n_samples, sg.sampling_rate,
                                     value, FALSE)
                 F(s) == [s EXCEPT !.sigs[o].data = s.ret,
                                   !.sigs[o].fft_norm = value]
             IN  Bind(New(s2, d2), F)
        ELSE [st EXCEPT !.sigs[o].fft_norm = value]

\* Signal.fft_norm.setter
Signal_fft_norm_setter(st, o, value) ==
    LET sg == st.sigs[o]
    IN  IF value \notin VALID_FFT_NORMS THEN Raise(st, "ValueError")
        ELSE IF sg.fft_norm # value /\ sg.domain = "freq"
        THEN LET s1 == Call(st, "denorm", sg.fft_norm, sg.n_samples,
                            sg.sampling_rate)
                 d1 == normalization(View(st, sg.data), sg.n_samples,
                                     sg.sampling_rate, sg.fft_norm, TRUE)
                 s2 == Call(s1, "norm", value, sg.n_samples, sg.sampling_rate)
                 d2 == normalization(d1, sg.n_samples, sg.sampling_rate,
                                     value, FALSE)
                 F(s) == [s EXCEPT !.sigs[o].data = s.ret,
                                   !.sigs[o].fft_norm = value]
             IN  Bind(New(s2, d2), F)
        ELSE [st EXCEPT !.sigs[o].fft_norm = value]

\* Signal.__init__ that assumes an even number of samples without a warning
Signal_init_silent(st, o, h, sampling_rate, n_samples, domain, fft_norm) ==
    LET blank == [data |-> h, domain |-> domain, n_samples |-> 0,
                  sampling_rate |-> sampling_rate, fft_norm |-> "none"]
        s0 == [st EXCEPT !.sigs = (o :> blank) @@ @]
        T(s1) ==
            LET data == Handle2d(s1.ret)
            IN  IF fft_norm \notin VALID_FFT_NORMS
                THEN Raise(st, "ValueError")
                ELSE [s1 EXCEPT !.sigs[o].data = data,
                                !.sigs[o].n_samples = RowLen(data.shape),
                                !.sigs[o].fft_norm = fft_norm]
        F(s1) ==
            LET data == Handle2d(s1.ret)
                bins == RowLen(data.shape)
                s2 == s1
                n == IF n_samples = None THEN (bins - 1) * 2 ELSE n_samples
            IN  IF n_samples # None /\ n_samples > 2 * bins - 1
                THEN Raise(st, "ValueError")
                ELSE IF n < 1
                THEN Raise([st EXCEPT !.warns = s2.warns], "ZeroDivisionError")
                ELSE IF fft_norm \notin VALID_FFT_NORMS
                THEN Raise([st EXCEPT !.warns = s2.warns], "ValueError")
                ELSE [s2 EXCEPT !.sigs[o].data = data,
                                !.sigs[o].n_samples = n,
                                !.sigs[o].fft_norm = fft_norm]
    IN  IF domain \notin VALID_DOMAINS THEN Raise(st, "ValueError")
        ELSE IF domain = "time" THEN Bind(AsArray(s0, h, "float64"), T)
        ELSE Bind(AsArray(s0, h, "complex128"), F)

\* Signal.__init__ that accepts one sample more than the bins allow
Signal_init_one_more(st, o, h, sampling_rate, n_samples, domain, fft_norm) ==
    LET blank == [data |-> h, domain |-> domain, n_samples |-> 0,
                  sampling_rate |-> sampling_rate, fft_norm |-> "none"]
        s0 == [st EXCEPT !.sigs = (o :> blank) @@ @]
        T(s1) ==
            LET data == Handle2d(s1.ret)
            IN  IF fft_norm \notin VALID_FFT_NORMS
                THEN Raise(st, "ValueError")
                ELSE [s1 EXCEPT !.sigs[o].data = data,
                                !.sigs[o].n_samples = RowLen(data.shape),
                                !.sigs[o].fft_norm = fft_norm]
        F(s1) ==
            LET data == Handle2d(s1.ret)
                bins == RowLen(data.shape)
                s2 == IF n_samples = None THEN Warn(s1) ELSE s1
                n == IF n_samples = None THEN (bins - 1) * 2 ELSE n_samples
            IN  IF n_samples # None /\ n_samples > 2 * bins
                THEN Raise(st, "ValueError")
                ELSE IF n < 1
                THEN Raise([st EXCEPT !.warns = s2.warns], "ZeroDivisionError")
                ELSE IF fft_norm \notin VALID_FFT_NORMS
                THEN Raise([st EXCEPT !.warns = s2.warns], "ValueError")
                ELSE [s2 EXCEPT !.sigs[o].data = data,
                                !.sigs[o].n_samples = n,
                                !.sigs[o].fft_norm = fft_norm]
    IN  IF domain \notin VALID_DOMAINS THEN Raise(st, "ValueError")
        ELSE IF domain = "time" THEN Bind(AsArray(s0, h, "float64"), T)
        ELSE Bind(AsArray(s0, h, "complex128"), F)

\* Signal.__init__ of the new object o from the array h
Signal_init(st, o, h, sampling_rate, n_samples, domain, fft_norm) ==
    LET blank == [data |-> h, domain |-> domain, n_samples |-> 0,
                  sampling_rate |-> sampling_rate, fft_norm |-> "none"]
        s0 == [st EXCEPT !.sigs = (o :> blank) @@ @]
        T(s1) ==
            LET data == Handle2d(s1.ret)
            IN  IF fft_norm \notin VALID_FFT_NORMS
                THEN Raise(st, "ValueError")
                ELSE [s1 EXCEPT !.sigs[o].data = data,
                                !.sigs[o].n_samples = RowLen(data.shape),
                                !.sigs[o].fft_norm = fft_norm]
        F(s1) ==
            LET data == Handle2d(s1.ret)
                bins == RowLen(data.shape)
                s2 == IF n_samples = None THEN Warn(s1) ELSE s1
                n == IF n_samples = None THEN (bins - 1) * 2 ELSE n_samples
            IN  IF n_samples # None /\ n_samples > 2 * bins - 1
                THEN Raise(st, "ValueError")
                ELSE IF n < 1
                THEN Raise([st EXCEPT !.warns = s2.warns], "ZeroDivisionError")
                ELSE IF fft_norm \notin VALID_FFT_NORMS
                THEN Raise([st EXCEPT !.warns = s2.warns], "ValueError")
                ELSE [s2 EXCEPT !.sigs[o].data = data,
                                !.sigs[o].n_samples = n,
                                !.sigs[o].fft_norm = fft_norm]
    IN  IF domain \notin VALID_DOMAINS THEN Raise(st, "ValueError")
        ELSE IF domain = "time" THEN Bind(AsArray(s0, h, "float64"), T)
        ELSE Bind(AsArray(s0, h, "complex128"), F)

----------------------------------------------------------------------------
(* Arithmetic: add, subtract, multiply, divide, power *)

\* an operand of the tuple `data`: the Signal object o, or (o = 0) the
\* array-like a
SigOperand(o) == [o |-> o, a |-> Arr(<<>>, "", <<>>)]

ValOperand(a) == [o |-> 0, a |-> a]

IsSignal(d) == d.o # 0

\* the dtypes _assert_match_for_arithmetic accepts for a non-Signal operand
dtypes == {"int8", "int16", "int32", "int64", "float32", "float64",
           "complex64", "complex128"}

ComplexTypes == {"complex64", "complex128"}

FloatTypes == {"float32", "float64"}

\* dtype of the result of a numpy binary operation
Promote(fn, ka, kb) ==
    IF ka \in ComplexTypes \/ kb \in ComplexTypes THEN "complex128"
    ELSE IF ka \in FloatTypes \/ kb \in FloatTypes \/ fn = "divide"
    THEN "float64"
    ELSE "int64"

\* one row of a + b, a - b, a * b, a / b, a ** b
CombineRows(fn, ra, rb) ==
    IF fn \in {"add", "subtract"} /\ rb = NumRow(0) THEN ra
    ELSE IF fn = "add" /\ ra = NumRow(0) THEN rb
    ELSE IF fn \in {"multiply", "divide", "power"} /\ rb = NumRow(1) THEN ra
    ELSE IF fn = "multiply" /\ ra = NumRow(1) THEN rb
    ELSE ra \o rb \o <<Tok(fn, "", 0, 0)>>

\* _add, _subtract, _multiply, _divide, _power on arrays that broadcast
operation(fn, a, b) ==
    LET shape == BroadcastShape(a.shape, b.shape)
        rcs == CShape(shape)
        n == Prod(rcs)
    IN  Arr(shape, Promote(fn, a.kind, b.kind),
            [r \in 1..n |->
                CombineRows(fn,
                    a.rows[BroadcastRow(r, CShape(a.shape), rcs)],
                    b.rows[BroadcastRow(r, CShape(b.shape), rcs)])])

\* what _assert_match_for_arithmetic has found so far
NoMeta == [err |-> "", sampling_rate |-> None, n_samples |-> None,
           fft_norm |-> ""]

\* loop body of _assert_match_for_arithmetic that compares sampling rates only
AssertOperand_rate_only(st, acc, d, domain) ==
    IF acc.err # "" THEN acc
    ELSE IF IsSignal(d)
    THEN LET sg == st.sigs[d.o]
             a1 == IF acc.sampling_rate = None
                   THEN [acc EXCEPT !.sampling_rate = sg.sampling_rate,
                                    !.n_samples = sg.n_samples,
                                    !.fft_norm = sg.fft_norm]
                   ELSE IF acc.sampling_rate # sg.sampling_rate
                   THEN [acc EXCEPT !.err = "ValueError"]
                   ELSE acc
         IN  IF a1.err = "" /\ sg.fft_norm # "none" /\ a1.fft_norm = "none"
             THEN [a1 EXCEPT !.fft_norm = sg.fft_norm]
             ELSE a1
    ELSE IF d.a.kind \notin dtypes THEN [acc EXCEPT !.err = "ValueError"]
    ELSE IF d.a.kind \in ComplexTypes /\ domain = "time"
    THEN [acc EXCEPT !.err = "ValueError"]
    ELSE acc

\* loop body of _assert_match_for_arithmetic in which the last convention
\* that is not 'none' wins
AssertOperand_last_wins(st, acc, d, domain) ==
    IF acc.err # "" THEN acc
    ELSE IF IsSignal(d)
    THEN LET sg == st.sigs[d.o]
             a1 == IF acc.sampling_rate = None
                   THEN [acc EXCEPT !.sampling_rate = sg.sampling_rate,
                                    !.n_samples = sg.n_samples,
                                    !.fft_norm = sg.fft_norm]
                   ELSE IF acc.sampling_rate # sg.sampling_rate
                   THEN [acc EXCEPT !.err = "ValueError"]
                   ELSE IF acc.n_samples # sg.n_samples
                   THEN [acc EXCEPT !.err = "ValueError"]
                   ELSE acc
         IN  IF a1.err = "" /\ sg.fft_norm # "none"
             THEN [a1 EXCEPT !.fft_norm = sg.fft_norm]
             ELSE a1
    ELSE IF d.a.kind \notin dtypes THEN [acc EXCEPT !.err = "ValueError"]
    ELSE IF d.a.kind \in ComplexTypes /\ domain = "time"
    THEN [acc EXCEPT !.err = "ValueError"]
    ELSE acc

\* loop body of _assert_match_for_arithmetic: operand d after those in acc
AssertOperand(st, acc, d, domain) ==
    IF acc.err # "" THEN acc
    ELSE IF IsSignal(d)
    THEN LET sg == st.sigs[d.o]
             a1 == IF acc.sampling_rate = None
                   THEN [acc EXCEPT !.sampling_rate = sg.sampling_rate,
                                    !.n_samples = sg.n_samples,
                                    !.fft_norm = sg.fft_norm]
                   ELSE IF acc.sampling_rate # sg.sampling_rate
                   THEN [acc EXCEPT !.err = "ValueError"]
                   ELSE IF acc.n_samples # sg.n_samples
                   THEN [acc EXCEPT !.err = "ValueError"]
                   ELSE acc
         IN  IF a1.err = "" /\ sg.fft_norm # "none" /\ a1.fft_norm = "none"
             THEN [a1 EXCEPT !.fft_norm = sg.fft_norm]
             ELSE a1
    ELSE IF d.a.kind \notin dtypes THEN [acc EXCEPT !.err = "ValueError"]
    ELSE IF d.a.kind \in ComplexTypes /\ domain = "time"
    THEN [acc EXCEPT !.err = "ValueError"]
    ELSE acc

RECURSIVE AssertOperands(_, _, _, _)
AssertOperands(st, acc, data, domain) ==
    IF data = <<>> THEN acc
    ELSE AssertOperands(st, AssertOperand(st, acc, Head(data), domain),
                        Tail(data), domain)

\* _assert_match_for_arithmetic: [err, sampling_rate, n_samples, fft_norm]
_assert_match_for_arithmetic(st, data, is_tuple, domain) ==
    IF ~is_tuple THEN [NoMeta EXCEPT !.err = "ValueError"]
    ELSE IF domain \notin {"time", "freq"}
    THEN [NoMeta EXCEPT !.err = "ValueError"]
    ELSE AssertOperands(st, NoMeta, data, domain)

\* _get_arithmetic_data that removes the normalization in the time domain too
_get_arithmetic_data_denorm_always(st, d, n_samples, domain) ==
    LET T(s) == CopyArr(s, s.ret)
        D(c) ==
            LET sg == c.sigs[d.o]
                c1 == Call(c, "denorm", sg.fft_norm, n_samples,
                           sg.sampling_rate)
            IN  IF sg.fft_norm # "none"
                THEN New(c1, normalization(View(c, c.ret), n_samples,
                                           sg.sampling_rate, sg.fft_norm, TRUE))
                ELSE c
        F(s) == Bind(CopyArr(s, s.ret), D)
    IN  IF IsSignal(d)
        THEN IF domain = "time" THEN Then(Signal_time(st, d.o), F)
             ELSE IF domain = "freq" THEN Then(Signal_freq(st, d.o), F)
             ELSE Raise(st, "ValueError")
        ELSE New(st, d.a)

\* _get_arithmetic_data: returns the operand's data in `domain`, without
\* any fft normalization
_get_arithmetic_data(st, d, n_samples, domain) ==
    LET T(s) == CopyArr(s, s.ret)
        D(c) ==
            LET sg == c.sigs[d.o]
                c1 == Call(c, "denorm", sg.fft_norm, n_samples,
                           sg.sampling_rate)
            IN  IF sg.fft_norm # "none"
                THEN New(c1, normalization(View(c, c.ret), n_samples,
                                           sg.sampling_rate, sg.fft_norm, TRUE))
                ELSE c
        F(s) == Bind(CopyArr(s, s.ret), D)
    IN  IF IsSignal(d)
        THEN IF domain = "time" THEN Then(Signal_time(st, d.o), T)
             ELSE IF domain = "freq" THEN Then(Signal_freq(st, d.o), F)
             ELSE Raise(st, "ValueError")
        ELSE New(st, d.a)

\* the loop of _arithmetic: st.ret is the result so far, data the operands
\* still to come, the k-th of the tuple first
RECURSIVE ArithmeticLoop(_, _, _, _, _, _)
ArithmeticLoop(st, data, k, n_samples, domain, fn) ==
    LET Combine(s1, acc, b) ==
            LET R(s3) == ArithmeticLoop(s3, Tail(data), k + 1, n_samples,
                                        domain, fn)
            IN  IF ~BroadcastOK(acc.shape, b.shape)
                THEN Raise(s1, "ValueError")
                ELSE Bind(New(Call(s1, fn, "", k, 0), operation(fn, acc, b)), R)
        F(s1) ==
            LET G(acc) ==
                    LET H(b) == Combine(s1, acc, b)
                    IN  Bind(View(s1, s1.ret), H)
            IN  Bind(View(st, st.ret), G)
    IN  IF st.err # "" \/ data = <<>> THEN st
        ELSE Then(_get_arithmetic_data(st, Head(data), n_samples, domain), F)

\* the object id the Signal returned by an arithmetic call is given
ResultObj == 3

\* _arithmetic that fetches the data of the first operand before it looks
\* at what _assert_match_for_arithmetic found
_arithmetic_check_late(st, data, is_tuple, domain, fn) ==
    LET M(m) ==
            LET L(s1) == ArithmeticLoop(s1, Tail(data), 2, m.n_samples, domain,
                                        fn)
                N(s2) ==
                    IF domain = "freq"
                    THEN New(Call(s2, "norm", m.fft_norm, m.n_samples,
                                  m.sampling_rate),
                             normalization(View(s2, s2.ret), m.n_samples,
                                           m.sampling_rate, m.fft_norm, FALSE))
                    ELSE s2
                I(s3) == Signal_init(s3, ResultObj, s3.ret, m.sampling_rate,
                                     m.n_samples, domain, m.fft_norm)
                R(s2) == IF m.sampling_rate = None THEN s2
                         ELSE Bind(N(s2), I)
            IN  IF m.err # ""
                THEN IF is_tuple /\ domain \in {"time", "freq"}
                        /\ IsSignal(data[1])
                     THEN Raise(_get_arithmetic_data(
                                    st, data[1], st.sigs[data[1].o].n_samples,
                                    domain), m.err)
                     ELSE Raise(st, m.err)
                ELSE Then(Then(_get_arithmetic_data(st, data[1], m.n_samples,
                                                    domain), L), R)
    IN  Bind(_assert_match_for_arithmetic(st, data, is_tuple, domain), M)

\* _arithmetic that normalizes the first operand's data instead of the result
_arithmetic_norm_first(st, data, is_tuple, domain, fn) ==
    LET M(m) ==
            LET N(s0) ==
                    IF m.sampling_rate # None /\ domain = "freq"
                    THEN New(Call(s0, "norm", m.fft_norm, m.n_samples,
                                  m.sampling_rate),
                             normalization(View(s0, s0.ret), m.n_samples,
                                           m.sampling_rate, m.fft_norm, FALSE))
                    ELSE s0
                L(s1) == ArithmeticLoop(s1, Tail(data), 2, m.n_samples, domain,
                                        fn)
                I(s2) == IF m.sampling_rate = None THEN s2
                         ELSE Signal_init(s2, ResultObj, s2.ret, m.sampling_rate,
                                          m.n_samples, domain, m.fft_norm)
            IN  IF m.err # "" THEN Raise(st, m.err)
                ELSE Then(Then(Then(_get_arithmetic_data(st, data[1], m.n_samples,
                                                         domain), N), L), I)
    IN  Bind(_assert_match_for_arithmetic(st, data, is_tuple, domain), M)

\* _arithmetic that returns the first Signal operand, updated in place
_arithmetic_in_place(st, data, is_tuple, domain, fn) ==
    LET first == CHOOSE i \in 1..Len(data) :
                     IsSignal(data[i]) /\ \A j \in 1..(i - 1) : ~IsSignal(data[j])
        M(m) ==
            LET L(s1) == ArithmeticLoop(s1, Tail(data), 2, m.n_samples, domain,
                                        fn)
                N(s2) ==
                    IF domain = "freq"
                    THEN New(Call(s2, "norm", m.fft_norm, m.n_samples,
                                  m.sampling_rate),
                             normalization(View(s2, s2.ret), m.n_samples,
                                           m.sampling_rate, m.fft_norm, FALSE))
                    ELSE s2
                I(s3) ==
                    Signal_init([s3 EXCEPT
                                    !.sigs[data[first].o].data = Handle2d(s3.ret),
                                    !.sigs[data[first].o].fft_norm = m.fft_norm],
                                ResultObj, s3.ret, m.sampling_rate,
                                m.n_samples, domain, m.fft_norm)
                R(s2) == IF m.sampling_rate = None THEN s2
                         ELSE Bind(N(s2), I)
            IN  IF m.err # "" THEN Raise(st, m.err)
                ELSE Then(Then(_get_arithmetic_data(st, data[1], m.n_samples,
                                                    domain), L), R)
    IN  Bind(_assert_match_for_arithmetic(st, data, is_tuple, domain), M)

\* _arithmetic: on return st.ret is the result array and, when an operand is
\* a Signal, object ResultObj is the Signal built from it
_arithmetic(st, data, is_tuple, domain, fn) ==
    LET M(m) ==
            LET L(s1) == ArithmeticLoop(s1, Tail(data), 2, m.n_samples, domain,
                                        fn)
                N(s2) ==
                    IF domain = "freq"
                    THEN New(Call(s2, "norm", m.fft_norm, m.n_samples,
                                  m.sampling_rate),
                             normalization(View(s2, s2.ret), m.n_samples,
                                           m.sampling_rate, m.fft_norm, FALSE))
                    ELSE s2
                I(s3) == Signal_init(s3, ResultObj, s3.ret, m.sampling_rate,
                                     m.n_samples, domain, m.fft_norm)
                R(s2) == IF m.sampling_rate = None THEN s2
                         ELSE Bind(N(s2), I)
            IN  IF m.err # "" THEN Raise(st, m.err)
                ELSE Then(Then(_get_arithmetic_data(st, data[1], m.n_samples,
                                                    domain), L), R)
    IN  Bind(_assert_match_for_arithmetic(st, data, is_tuple, domain), M)

add(st, data, is_tuple, domain) == _arithmetic(st, data, is_tuple, domain, "add")

subtract(st, data, is_tuple, domain) ==
    _arithmetic(st, data, is_tuple, domain, "subtract")

multiply(st, data, is_tuple, domain) ==
    _arithmetic(st, data, is_tuple, domain, "multiply")

divide(st, data, is_tuple, domain) ==
    _arithmetic(st, data, is_tuple, domain, "divide")

power(st, data, is_tuple, domain) ==
    _arithmetic(st, data, is_tuple, domain, "power")

\* Signal.__add__, __sub__, __mul__, __truediv__, __pow__ of object o
__add__(st, o, other) == add(st, <<SigOperand(o), other>>, TRUE, "freq")

\* __sub__ working in the time domain
__sub___in_time(st, o, other) ==
    subtract(st, <<SigOperand(o), other>>, TRUE, "time")

__sub__(st, o, other) == subtract(st, <<SigOperand(o), other>>, TRUE, "freq")

__mul__(st, o, other) == multiply(st, <<SigOperand(o), other>>, TRUE, "freq")

__truediv__(st, o, other) ==
    divide(st, <<SigOperand(o), other>>, TRUE, "freq")

__pow__(st, o, other) == power(st, <<SigOperand(o), other>>, TRUE, "freq")

----------------------------------------------------------------------------
(* Copies, reshaping and item access *)

Min(a, b) == IF a <= b THEN a ELSE b

\* utils.copy(signal): a deep copy of object o, as the new object p
utils_copy(st, o, p) ==
    LET F(s) == [s EXCEPT !.sigs = (p :> [st.sigs[o] EXCEPT !.data = s.ret])
                                       @@ @]
    IN  Bind(CopyArr(st, st.sigs[o].data), F)

\* _Audio.copy
copy(st, o, p) == utils_copy(st, o, p)

\* the entries of a requested shape that are given, not -1
Known(newshape) == SelectSeq(newshape, LAMBDA n : n # -1)

\* ndarray.reshape takes newshape for an array of `total` channels: no entry
\* is -1 and the sizes agree, or one is and the others divide the size
ReshapeOK(newshape, total) ==
    IF Len(Known(newshape)) = Len(newshape) THEN Prod(newshape) = total
    ELSE /\ Len(Known(newshape)) = Len(newshape) - 1
         /\ Prod(Known(newshape)) > 0
         /\ total % Prod(Known(newshape)) = 0

\* the shape ndarray.reshape gives, the -1 entry inferred
Reshaped(newshape, total) ==
    [i \in DOMAIN newshape |->
        IF newshape[i] = -1 THEN total \div Prod(Known(newshape))
        ELSE newshape[i]]

\* reshape returning the copy whenever ndarray.reshape fails
reshape_lenient(st, o, p, newshape) ==
    LET F(s) ==
            LET d == s.sigs[p].data
            IN  IF ReshapeOK(newshape, NRows(d.shape))
                THEN [s EXCEPT !.sigs[p].data.shape =
                         Reshaped(newshape, NRows(d.shape))
                             \o <<RowLen(d.shape)>>]
                ELSE s
    IN  Bind(utils_copy(st, o, p), F)

\* _Audio.reshape with a tuple (an int n is the tuple <<n>>), as object p
reshape(st, o, p, newshape) ==
    LET F(s) ==
            LET d == s.sigs[p].data
            IN  IF ReshapeOK(newshape, NRows(d.shape))
                THEN [s EXCEPT !.sigs[p].data.shape =
                         Reshaped(newshape, NRows(d.shape))
                             \o <<RowLen(d.shape)>>]
                ELSE IF Prod(newshape) # NRows(st.sigs[o].data.shape)
                THEN Raise(st, "ValueError")
                ELSE s
    IN  Bind(utils_copy(st, o, p), F)

\* _Audio.flatten
flatten(st, o, p) == reshape(st, o, p, <<NRows(st.sigs[o].data.shape)>>)

\* keys of s[key]: an int, a slice lo:hi, a tuple of ints, anything else
IntKey(i) == [kind |-> "int", lo |-> i, hi |-> i + 1, idx |-> <<>>]

SliceKey(lo, hi) == [kind |-> "slice", lo |-> lo, hi |-> hi, idx |-> <<>>]

TupleKey(idx) == [kind |-> "tuple", lo |-> 0, hi |-> 0, idx |-> idx]

OtherKey == [kind |-> "str", lo |-> 0, hi |-> 0, idx |-> <<>>]

\* what a call without a key is recorded with, and a call with a newshape
NoKey == [kind |-> "", lo |-> 0, hi |-> 0, idx |-> <<>>]

ShapeArg(newshape) == [kind |-> "shape", lo |-> 0, hi |-> 0, idx |-> newshape]

\* an int key lies within the first axis of the array; a tuple has no more
\* entries than the array has axes and each lies within its axis
InBounds(h, key) ==
    /\ key.kind = "int" => (key.lo >= 0 - h.shape[1] /\ key.lo < h.shape[1])
    /\ key.kind = "tuple" =>
           /\ Len(key.idx) <= Len(h.shape)
           /\ \A i \in DOMAIN key.idx :
                  key.idx[i] >= 0 - h.shape[i] /\ key.idx[i] < h.shape[i]

\* a tuple key with an entry for every axis: it selects one element
IsElement(h, key) == key.kind = "tuple" /\ Len(key.idx) = Len(h.shape)

\* ndarray[idx] for a tuple of ints that leaves the trailing axis alone: a
\* view of the same buffer
ItemAt(h, idx) ==
    LET k == Len(idx)
        at == [i \in 1..k |-> IF idx[i] < 0 THEN idx[i] + h.shape[i]
                              ELSE idx[i]]
        block == Prod(SubSeq(h.shape, k + 1, Len(h.shape) - 1))
        first == Ravel(at, SubSeq(h.shape, 1, k)) * block
    IN  [buf |-> h.buf,
         chans |-> SubSeq(h.chans, first + 1, first + block),
         shape |-> SubSeq(h.shape, k + 1, Len(h.shape))]

\* ndarray[idx] for a tuple of ints with an entry for every axis: a number
Element(a, idx) ==
    LET k == Len(idx)
        at == [i \in 1..k |-> IF idx[i] < 0 THEN idx[i] + a.shape[i]
                              ELSE idx[i]]
        row == a.rows[Ravel(Front(at), CShape(a.shape)) + 1]
    IN  Arr(<<>>, a.kind,
            <<IF RowLen(a.shape) = 1 THEN row
              ELSE Append(row, Tok("elem", "", Last(at), 0))>>)

\* ndarray[key], basic indexing of the first axis: a view of the same buffer
Item(h, key) ==
    LET d1 == h.shape[1]
        block == Prod(Tail(CShape(h.shape)))
        i == IF key.lo < 0 THEN key.lo + d1 ELSE key.lo
        lo == Min(key.lo, d1)
        hi == Min(Max(key.hi, lo), d1)
    IN  IF key.kind = "tuple" THEN ItemAt(h, key.idx)
        ELSE IF key.kind = "int"
        THEN [buf |-> h.buf,
              chans |-> SubSeq(h.chans, i * block + 1, (i + 1) * block),
              shape |-> Tail(h.shape)]
        ELSE [buf |-> h.buf,
              chans |-> SubSeq(h.chans, lo * block + 1, hi * block),
              shape |-> <<hi - lo>> \o Tail(h.shape)]

\* Signal._return_item: the new Signal p on the array h
_return_item(st, o, p, h) ==
    Signal_init(st, p, h, st.sigs[o].sampling_rate, st.sigs[o].n_samples,
                st.sigs[o].domain, st.sigs[o].fft_norm)

\* _Audio.__getitem__
__getitem__(st, o, p, key) ==
    LET F(s) == _return_item(s, o, p, s.ret)
    IN  IF key.kind \notin {"int", "slice", "tuple"} THEN Raise(st, "TypeError")
        ELSE IF ~InBounds(st.sigs[o].data, key) THEN Raise(st, "IndexError")
        ELSE IF IsElement(st.sigs[o].data, key)
        THEN Bind(New(st, Element(View(st, st.sigs[o].data), key.idx)), F)
        ELSE _return_item(st, o, p, Item(st.sigs[o].data, key))

\* _assert_matching_meta_data without the comparison of the fft norms
_assert_matching_meta_data_no_norm(st, o, other) ==
    IF other = 0 THEN "ValueError"
    ELSE IF st.sigs[o].sampling_rate # st.sigs[other].sampling_rate
    THEN "ValueError"
    ELSE IF st.sigs[o].n_samples # st.sigs[other].n_samples THEN "ValueError"
    ELSE ""

\* Signal._assert_matching_meta_data: the error it raises, "" if none;
\* other = 0 is a value that is no Signal
_assert_matching_meta_data(st, o, other) ==
    IF other = 0 THEN "ValueError"
    ELSE IF st.sigs[o].sampling_rate # st.sigs[other].sampling_rate
    THEN "ValueError"
    ELSE IF st.sigs[o].n_samples # st.sigs[other].n_samples THEN "ValueError"
    ELSE IF st.sigs[o].fft_norm # st.sigs[other].fft_norm THEN "ValueError"
    ELSE ""

\* a shape without its leading axes of length 1 beyond n axes
RECURSIVE Squeezed(_, _)
Squeezed(shape, n) ==
    IF Len(shape) > n /\ shape[1] = 1 THEN Squeezed(Tail(shape), n) ELSE shape

\* ndarray[...] = a through the view h: the rows of a, broadcast and cast to
\* the dtype of the buffer, replace the rows h views
Assign(st, h, a) ==
    LET vs == Squeezed(a.shape, Len(h.shape))
        kind == st.heap[h.buf].kind
        Fill(row) == IF RowLen(vs) # RowLen(h.shape)
                     THEN Push(row, Tok("repeat", "", RowLen(h.shape), 0))
                     ELSE row
        Cast(row) == IF a.kind \in ComplexTypes /\ kind \notin ComplexTypes
                     THEN RealPart(row)
                     ELSE row
        Written(c) ==
            LET r == CHOOSE r \in DOMAIN h.chans : h.chans[r] = c
            IN  Cast(Fill(a.rows[BroadcastRow(r, CShape(vs), CShape(h.shape))]))
    IN  IF \/ Len(vs) > Len(h.shape)
           \/ ~BroadcastOK(vs, h.shape)
           \/ BroadcastShape(vs, h.shape) # h.shape
        THEN Raise(st, "ValueError")
        ELSE [st EXCEPT !.heap[h.buf].rows =
                 [c \in DOMAIN st.heap[h.buf].rows |->
                     IF \E r \in DOMAIN h.chans : h.chans[r] = c
                     THEN Written(c)
                     ELSE st.heap[h.buf].rows[c]]]

\* _Audio.__setitem__
__setitem__(st, o, key, value) ==
    LET F(a) == Assign(st, Item(st.sigs[o].data, key), a)
    IN  IF _assert_matching_meta_data(st, o, value) # ""
        THEN Raise(st, _assert_matching_meta_data(st, o, value))
        ELSE IF key.kind \notin {"int", "slice"} THEN Raise(st, "TypeError")
        ELSE IF ~InBounds(st.sigs[o].data, key) THEN Raise(st, "IndexError")
        ELSE Bind(View(st, st.sigs[value].data), F)

----------------------------------------------------------------------------
(* Iteration: Signal.__iter__ and class SignalIterator *)

\* ndarray[..., 0, :]: index 0 of the last axis but one, a view
FirstOfLast(h) ==
    LET k == Len(h.shape) - 1
        lead == SubSeq(h.shape, 1, k - 1)
    IN  [buf |-> h.buf,
         chans |-> [i \in 1..Prod(lead) |-> h.chans[(i - 1) * h.shape[k] + 1]],
         shape |-> Append(lead, Last(h.shape))]

\* a variant in which the iterators over one Signal share the array
\* iterator: a new one goes on where the other is
SignalIterator_init_shared(st, o, p) ==
    LET h == st.sigs[o].data
        F(s) == IF s.err # "" THEN s
                ELSE [s EXCEPT !.iter = [signal |-> o, iterated_sig |-> p,
                                         array |-> h,
                                         pos |-> s.iter.other.pos,
                                         tag |-> "",
                                         other |-> s.iter.other]]
    IN  IF h.shape[Len(h.shape) - 1] = 0 THEN Raise(st, "IndexError")
        ELSE Bind(Signal_init(st, p, FirstOfLast(h), st.sigs[o].sampling_rate,
                              st.sigs[o].n_samples, st.sigs[o].domain,
                              st.sigs[o].fft_norm), F)

\* SignalIterator.__init__ with _signal the object o and _iterated_sig the
\* new Signal p; _array_iterator runs over the array o holds now
SignalIterator_init(st, o, p) ==
    LET h == st.sigs[o].data
        F(s) == IF s.err # "" THEN s
                ELSE [s EXCEPT !.iter = [signal |-> o, iterated_sig |-> p,
                                         array |-> h, pos |-> 0, tag |-> "",
                                         other |-> s.iter.other]]
    IN  IF h.shape[Len(h.shape) - 1] = 0 THEN Raise(st, "IndexError")
        ELSE Bind(Signal_init(st, p, FirstOfLast(h), st.sigs[o].sampling_rate,
                              st.sigs[o].n_samples, st.sigs[o].domain,
                              st.sigs[o].fft_norm), F)

\* Signal.__iter__
__iter__(st, o, p) == SignalIterator_init(st, o, p)

\* SignalIterator.__next__; the array iterator raises StopIteration past the
\* first axis of its array
__next__(st) ==
    LET it == st.iter
    IN  IF st.sigs[it.signal].domain # st.sigs[it.iterated_sig].domain
        THEN Raise(st, "RuntimeError")
        ELSE IF it.pos >= it.array.shape[1] THEN Raise(st, "StopIteration")
        ELSE [st EXCEPT !.sigs[it.iterated_sig].data =
                            Handle2d(Item(it.array, IntKey(it.pos))),
                        !.iter.pos = @ + 1]

----------------------------------------------------------------------------
(* The key handlers of a line plot: classes Cycle and AxisModifierLines *)

\* Cycle.__next__ on the cycle over axes.lines
Cycle_next(m) == [m EXCEPT !.index = (@ + 1) % Len(m.lines)]

\* Cycle.previous
Cycle_previous(m) ==
    [m EXCEPT !.index = IF @ - 1 < 0 THEN Len(m.lines) + (@ - 1) ELSE @ - 1]

\* axes.lines[i].set_visible(b)
set_visible(m, i, b) == [m EXCEPT !.lines[i + 1] = b]

\* for i in range(len(self.axes.lines)): self.axes.lines[i].set_visible(b)
SetAllVisible(m, b) == [m EXCEPT !.lines = [i \in DOMAIN @ |-> b]]

\* AxisModifierLines.__init__ on axes with n lines, all of them visible
AxisModifierLines_init(n) ==
    [lines |-> [i \in 1..n |-> TRUE], index |-> 0, current_line |-> 0,
     all_visible |-> TRUE]

\* AxisModifierLines.cycle_lines
cycle_lines(m, key) ==
    LET hidden == IF m.all_visible THEN SetAllVisible(m, FALSE)
                  ELSE set_visible(m, m.current_line, FALSE)
        moved == IF key \in {"*", "]"} THEN Cycle_next(hidden)
                 ELSE Cycle_previous(hidden)
        line == [moved EXCEPT !.current_line = moved.index]
    IN  IF key \in {"*", "]", "[", "/", "7"}
        THEN [set_visible(line, line.current_line, TRUE)
                 EXCEPT !.all_visible = FALSE]
        ELSE m

\* a variant of toggle_all_lines that hides every line and shows none
toggle_all_lines_hide_all(m, key) ==
    IF key = "a"
    THEN IF m.all_visible
         THEN [SetAllVisible(m, FALSE) EXCEPT !.all_visible = FALSE]
         ELSE [SetAllVisible(m, TRUE) EXCEPT !.all_visible = TRUE]
    ELSE m

\* AxisModifierLines.toggle_all_lines
toggle_all_lines(m, key) ==
    IF key = "a"
    THEN IF m.all_visible
         THEN [set_visible(SetAllVisible(m, FALSE), m.current_line, TRUE)
                  EXCEPT !.all_visible = FALSE]
         ELSE [SetAllVisible(m, TRUE) EXCEPT !.all_visible = TRUE]
    ELSE m

----------------------------------------------------------------------------
(* Steps of the model: one client call each *)

NoArr == Arr(<<>>, "", <<>>)

NoArgs == [data |-> <<>>, domain |-> "", fn |-> "", tuple |-> TRUE]

ResNone == [k |-> "none", o |-> 0, a |-> NoArr]

ResArr(a) == [k |-> "array", o |-> 0, a |-> a]

ResSig(o) == [k |-> "signal", o |-> o, a |-> NoArr]

Opr(name, o, a) == [name |-> name, o |-> o, a |-> a]

\* buffers some object still refers to
Live(st) ==
    {st.sigs[p].data.buf : p \in DOMAIN st.sigs}
        \cup ({st.iter.array.buf, st.iter.other.array.buf} \ {0})

Rank(st, b) == Cardinality({x \in Live(st) : x <= b})

\* garbage collection: unreferenced arrays go, the others are renumbered
CollectedSigs(st) ==
    [p \in DOMAIN st.sigs |-> [st.sigs[p] EXCEPT !.data.buf = Rank(st, @)]]

CollectedHeap(st) ==
    [b \in 1..Cardinality(Live(st)) |->
        st.heap[CHOOSE x \in Live(st) : Rank(st, x) = b]]

CollectedIter(st) == [st.iter EXCEPT !.array.buf = Rank(st, @),
                                     !.other.array.buf = Rank(st, @)]

\* no row of a live array carries a term longer than MaxTerm
Bounded(st) ==
    \A b \in Live(st) :
        \A i \in DOMAIN st.heap[b].rows : Len(st.heap[b].rows[i]) <= MaxTerm

Commit(st, opr, argv, res) ==
    /\ sigs' = CollectedSigs(st)
    /\ heap' = CollectedHeap(st)
    /\ op' = opr
    /\ args' = argv
    /\ calls' = st.calls
    /\ warns' = st.warns
    /\ err' = st.err
    /\ result' = res
    /\ iter' = CollectedIter(st)
    /\ axis_modifier' = axis_modifier

\* a getter returns the buffer of the object itself, no copy: the client
\* sees what the object holds
Returned(st, o) == IF st.err = "" THEN ResSig(o) ELSE ResNone

\* shapes of the arrays clients pass to a setter or to Signal()
ClientShapes == {<<l>> : l \in 1..MaxLen}

\* x = s.time
ReadTime(o) ==
    \E st \in {Signal_time(Cur, o)} :
        Bounded(st) /\ Commit(st, Opr("time", o, ""), NoArgs, Returned(st, o))

\* x = s.freq
ReadFreq(o) ==
    \E st \in {Signal_freq(Cur, o)} :
        Bounded(st) /\ Commit(st, Opr("freq", o, ""), NoArgs, Returned(st, o))

\* s.time = value
WriteTime(o) ==
    \E shape \in ClientShapes, id \in 1..MaxContent :
        \E s0 \in {New(Cur, ClientArr(shape, "float64", id))} :
            \E st \in {TimeData_time_setter(s0, o, s0.ret)} :
                Commit(st, Opr("time=", o, ""), NoArgs, ResNone)

\* s.freq = value
WriteFreq(o) ==
    \E shape \in ClientShapes, id \in 1..MaxContent :
        \E s0 \in {New(Cur, ClientArr(shape, "complex128", id))} :
            \E st \in {Signal_freq_setter(s0, o, s0.ret)} :
                Commit(st, Opr("freq=", o, ""), NoArgs, ResNone)

\* s.fft_norm = value
SetFftNorm(o) ==
    \E value \in VALID_FFT_NORMS \cup {"bogus"} :
        \E st \in {Signal_fft_norm_setter(Cur, o, value)} :
            Bounded(st) /\ Commit(st, Opr("fft_norm=", o, value), NoArgs, ResNone)

\* s.sampling_rate = value
SetSamplingRate(o) ==
    \E value \in SamplingRates :
        \E st \in {Signal_sampling_rate_setter(Cur, o, value)} :
            /\ value # sigs[o].sampling_rate
            /\ Commit(st, Opr("sampling_rate=", o, ""), NoArgs, ResNone)

\* what a getter that computes an array returns
Computed(st) == IF st.err = "" THEN ResArr(View(st, st.ret)) ELSE ResNone

\* t = s.times
ReadTimes(o) ==
    \E st \in {Signal_times(Cur, o)} :
        Commit(st, Opr("times", o, ""), NoArgs, Computed(st))

\* f = s.frequencies
ReadFrequencies(o) ==
    \E st \in {Signal_frequencies(Cur, o)} :
        Commit(st, Opr("frequencies", o, ""), NoArgs, Computed(st))

\* s = Signal(data, sampling_rate, n_samples, domain, fft_norm) as object 1
Constructed(shape, kind, id, sampling_rate, n_samples, domain, fft_norm) ==
    LET F(s) == Signal_init(s, 1, s.ret, sampling_rate, n_samples, domain,
                            fft_norm)
    IN  Bind(New(Empty, ClientArr(shape, kind, id)), F)

Start(st) ==
    /\ st.err = ""
    /\ sigs = CollectedSigs(st)
    /\ heap = CollectedHeap(st)
    /\ op = Opr("Signal", 1, "")
    /\ args = NoArgs
    /\ calls = st.calls
    /\ warns = st.warns
    /\ err = ""
    /\ result = ResSig(1)
    /\ iter = NoIter
    /\ axis_modifier = NoModifier

Init ==
    \E shape \in ClientShapes, id \in 1..MaxContent,
       sampling_rate \in SamplingRates, fft_norm \in VALID_FFT_NORMS :
        \/ \E st \in {Constructed(shape, "float64", id, sampling_rate, None,
                                   "time", fft_norm)} : Start(st)
        \/ \E n_samples \in {None} \cup 1..(2 * MaxLen) :
              \E st \in {Constructed(shape, "complex128", id, sampling_rate,
                                     n_samples, "freq", fft_norm)} : Start(st)

Next ==
    \E o \in DOMAIN sigs :
        \/ ReadTime(o)
        \/ ReadFreq(o)
        \/ WriteTime(o)
        \/ WriteFreq(o)
        \/ SetFftNorm(o)
        \/ SetSamplingRate(o)
        \/ ReadTimes(o)
        \/ ReadFrequencies(o)

Spec == Init /\ [][Next]_vars

----------------------------------------------------------------------------
(* The arithmetic functions called on two Signals, objects 1 and 2 *)

Fns == {"add", "subtract", "multiply", "divide", "power"}

Dispatch(st, c) ==
    CASE c.fn = "add" -> add(st, c.data, c.tuple, c.domain)
      [] c.fn = "subtract" -> subtract(st, c.data, c.tuple, c.domain)
      [] c.fn = "multiply" -> multiply(st, c.data, c.tuple, c.domain)
      [] c.fn = "divide" -> divide(st, c.data, c.tuple, c.domain)
      [] c.fn = "power" -> power(st, c.data, c.tuple, c.domain)

\* the array-likes the client passes as operands: a number, an array of
\* two numbers
ClientValues == {NumArr(<<>>, "int64", 2), ClientArr(<<2>>, "float64", 3)}

ClientOperands ==
    {SigOperand(1), SigOperand(2)} \cup {ValOperand(a) : a \in ClientValues}

\* operand tuples of one, two and three operands
ClientTuples ==
    {<<a>> : a \in ClientOperands}
        \cup {<<a, b>> : a \in ClientOperands, b \in ClientOperands}
        \cup {<<a, b, c>> : a \in ClientOperands, b \in ClientOperands,
                            c \in ClientOperands}

ArithCalls ==
    [data : ClientTuples, domain : {"time", "freq"}, fn : Fns, tuple : {TRUE}]

\* r = add(data, domain), ... while the client holds no earlier result
Arithmetic ==
    /\ ResultObj \notin DOMAIN sigs
    /\ op.name # "arith"
    /\ \E c \in ArithCalls :
          \E st \in {Dispatch(Cur, c)} :
              Commit(st, Opr("arith", 0, c.fn), c,
                     IF st.err # "" THEN ResNone
                     ELSE IF ResultObj \in DOMAIN st.sigs THEN ResSig(ResultObj)
                     ELSE ResArr(View(st, st.ret)))

\* del r: the client lets go of the result of the last call
DropResult ==
    /\ op.name = "arith"
    /\ \E st \in {[Cur EXCEPT !.sigs = [o \in DOMAIN sigs \ {ResultObj} |->
                                            sigs[o]]]} :
          Commit(st, Opr("del", 0, ""), NoArgs, ResNone)

\* lengths of the first Signal's client data; the second has MaxLen samples
ArithLens == {1, MaxLen}

\* conventions of the two Signals
ArithNorms1 == {"none", "rms"}

ArithNorms2 == {"none", "psd"}

\* s1 = Signal(x1, 44100, fft_norm=...); s2 = Signal(x2, ..., fft_norm=...)
InitArith ==
    \E l1 \in ArithLens, l2 \in {MaxLen}, rate2 \in SamplingRates,
       norm1 \in ArithNorms1, norm2 \in ArithNorms2 :
        \E st1 \in {Constructed(<<l1>>, "float64", 1, 44100, None, "time",
                                norm1)} :
            \E s2 \in {New(st1, ClientArr(<<l2>>, "float64", 2))} :
                \E st2 \in {Signal_init(s2, 2, s2.ret, rate2, None, "time",
                                        norm2)} :
                    /\ st2.err = ""
                    /\ sigs = CollectedSigs(st2)
                    /\ heap = CollectedHeap(st2)
                    /\ op = Opr("Signal", 2, "")
                    /\ args = NoArgs
                    /\ calls = <<>>
                    /\ warns = 0
                    /\ err = ""
                    /\ result = ResSig(2)
                    /\ iter = NoIter
                    /\ axis_modifier = NoModifier

NextArith == Arithmetic \/ DropResult

SpecArith == InitArith /\ [][NextArith]_vars

----------------------------------------------------------------------------
(* Operators and functions called on a Signal and one other operand *)

Operators == {"+", "-", "*", "/", "**"}

\* s + other, s - other, ...
Overload(st, sym, o, other) ==
    CASE sym = "+" -> __add__(st, o, other)
      [] sym = "-" -> __sub__(st, o, other)
      [] sym = "*" -> __mul__(st, o, other)
      [] sym = "/" -> __truediv__(st, o, other)
      [] sym = "**" -> __pow__(st, o, other)

\* dtypes of the numbers the client passes
ClientKinds ==
    {"int8", "uint8", "float16", "float32", "complex64", "bool", "str"}

\* the other operand: a Signal, the integer 0, the number 2 of some dtype
PairOperands ==
    {SigOperand(1), SigOperand(2), ValOperand(NumArr(<<>>, "int64", 0))}
        \cup {ValOperand(NumArr(<<>>, k, 2)) : k \in ClientKinds}

\* what a call of an arithmetic function or operator returns
Outcome(st) ==
    IF st.err # "" THEN ResNone
    ELSE IF ResultObj \in DOMAIN st.sigs THEN ResSig(ResultObj)
    ELSE ResArr(View(st, st.ret))

\* the last step was a call: the client has its result to look at
Called == op.name \in {"arith", "operator"}

\* r = s + other, ...
Operator ==
    /\ ~Called
    /\ \E sym \in Operators, o \in {1, 2}, other \in PairOperands :
          \E st \in {Overload(Cur, sym, o, other)} :
              Commit(st, Opr("operator", o, sym),
                     [NoArgs EXCEPT !.data = <<SigOperand(o), other>>],
                     Outcome(st))

\* r = add((s, other), domain), ...
PairCall ==
    /\ ~Called
    /\ \E fn \in Fns, o \in {1, 2}, other \in PairOperands,
          domain \in VALID_DOMAINS :
          \E c \in {[data |-> <<SigOperand(o), other>>, domain |-> domain,
                      fn |-> fn, tuple |-> TRUE]} :
              \E st \in {Dispatch(Cur, c)} :
                  Commit(st, Opr("arith", 0, fn), c, Outcome(st))

\* del r: the client lets go of what the last call returned
DropValue ==
    /\ Called
    /\ \E st \in {[Cur EXCEPT !.sigs = [o \in DOMAIN sigs \ {ResultObj} |->
                                            sigs[o]]]} :
          Commit(st, Opr("del", 0, ""), NoArgs, ResNone)

NextOps == Operator \/ PairCall \/ DropValue

SpecOps == InitArith /\ [][NextOps]_vars

----------------------------------------------------------------------------
(* Signals made from one another: s is object 1, v object 2 *)

\* the most objects the client holds
MaxObjs == 3

\* the id of the next object
Fresh == CHOOSE p \in 1..MaxObjs :
             p \notin DOMAIN sigs /\ \A q \in 1..(p - 1) : q \in DOMAIN sigs

HasRoom == \E p \in 1..MaxObjs : p \notin DOMAIN sigs

Made(st) == IF st.err = "" THEN ResSig(Fresh) ELSE ResNone

ClientKeys ==
    {IntKey(0), IntKey(2), SliceKey(1, 2), TupleKey(<<1>>), TupleKey(<<0, 0>>),
     OtherKey}

ClientNewShapes == {<<1, 2>>, <<3>>, <<-1>>, <<-1, 2>>, <<-1, -1>>}

\* a = s[key]
GetItem(o) ==
    /\ HasRoom
    /\ \E key \in ClientKeys :
          \E st \in {__getitem__(Cur, o, Fresh, key)} :
              Commit(st, Opr("getitem", o, key), NoArgs, Made(st))

\* s[key] = v
SetItem(o) ==
    \E key \in ClientKeys, value \in DOMAIN sigs \cup {0} :
        \E st \in {__setitem__(Cur, o, key, value)} :
            Commit(st, Opr("setitem", o, key),
                   [NoArgs EXCEPT !.data = <<SigOperand(value)>>], ResNone)

\* c = s.copy()
Copy(o) ==
    /\ HasRoom
    /\ \E st \in {copy(Cur, o, Fresh)} :
          Commit(st, Opr("copy", o, NoKey), NoArgs, Made(st))

\* r = s.reshape(newshape)
Reshape(o) ==
    /\ HasRoom
    /\ \E newshape \in ClientNewShapes :
          \E st \in {reshape(Cur, o, Fresh, newshape)} :
              Commit(st, Opr("reshape", o, ShapeArg(newshape)), NoArgs,
                     Made(st))

\* f = s.flatten()
Flatten(o) ==
    /\ HasRoom
    /\ \E st \in {flatten(Cur, o, Fresh)} :
          Commit(st, Opr("flatten", o, NoKey), NoArgs, Made(st))

\* del a: the client lets go of a Signal it made from another
Drop(o) ==
    /\ o > 2
    /\ \E st \in {[Cur EXCEPT !.sigs = [q \in DOMAIN sigs \ {o} |-> sigs[q]]]} :
          Commit(st, Opr("del", o, NoKey), NoArgs, ResNone)

\* trailing-axis lengths of the client data
ShareLens == {1, 2}

ShareNorms == {"none", "rms"}

ShareKind(domain) == IF domain = "time" THEN "float64" ELSE "complex128"

\* s = Signal(x1, 44100, ...) of two channels and v = Signal(x2, ...) of
\* one, in the same domain
InitShare ==
    \E l1 \in ShareLens, l2 \in {SetMax(ShareLens)}, rate2 \in SamplingRates,
       domain \in VALID_DOMAINS, norm2 \in ShareNorms :
        \E st1 \in {Constructed(<<2, l1>>, ShareKind(domain), 1, 44100,
                                IF domain = "time" THEN None ELSE 2, domain,
                                "none")} :
            \E s2 \in {New(st1, ClientArr(<<l2>>, ShareKind(domain), 2))} :
                \E st2 \in {Signal_init(s2, 2, s2.ret, rate2,
                                        IF domain = "time" THEN None ELSE 2,
                                        domain, norm2)} :
                    /\ st1.err = "" /\ st2.err = ""
                    /\ sigs = CollectedSigs(st2)
                    /\ heap = CollectedHeap(st2)
                    /\ op = Opr("Signal", 2, NoKey)
                    /\ args = NoArgs
                    /\ calls = <<>>
                    /\ warns = 0
                    /\ err = ""
                    /\ result = ResSig(2)
                    /\ iter = NoIter
                    /\ axis_modifier = NoModifier

NextShare ==
    \E o \in DOMAIN sigs :
        \/ GetItem(o)
        \/ SetItem(o)
        \/ Copy(o)
        \/ Reshape(o)
        \/ Flatten(o)
        \/ Drop(o)

SpecShare == InitShare /\ [][NextShare]_vars

----------------------------------------------------------------------------
(* Iterating over one Signal while it is used *)

\* the Signal object an iterator makes for itself
IterObj == 2

\* the domain of _signal at this call of __next__, for the record
Stamped(st) == [st EXCEPT !.iter.tag = sigs[iter.signal].domain]

\* it = iter(s); an iterator the client held before is dropped
Iter ==
    \E st \in {__iter__(Cur, 1, IterObj)} :
        Commit(st, Opr("iter", 1, ""), NoArgs, ResNone)

\* x = next(it)
NextStep ==
    /\ iter.signal # 0
    /\ \E st \in {Stamped(__next__(Cur))} :
          Commit(st, Opr("next", 1, ""), NoArgs, Returned(st, IterObj))

\* what the client assigns to s between the steps
IterData == {<<3>>}

IterNorms == {"none", "rms"}

\* s.time = value between two steps
IterWriteTime ==
    \E shape \in IterData :
        \E s0 \in {New(Cur, ClientArr(shape, "float64", 2))} :
            \E st \in {TimeData_time_setter(s0, 1, s0.ret)} :
                Commit(st, Opr("time=", 1, ""), NoArgs, ResNone)

\* s.freq = value between two steps
IterWriteFreq ==
    \E shape \in IterData :
        \E s0 \in {New(Cur, ClientArr(shape, "complex128", 2))} :
            \E st \in {Signal_freq_setter(s0, 1, s0.ret)} :
                Commit(st, Opr("freq=", 1, ""), NoArgs, ResNone)

\* s.fft_norm = value between two steps
IterSetFftNorm ==
    \E value \in IterNorms :
        \E st \in {Signal_fft_norm_setter(Cur, 1, value)} :
            /\ value # sigs[1].fft_norm
            /\ Bounded(st)
            /\ Commit(st, Opr("fft_norm=", 1, value), NoArgs, ResNone)

\* shapes of the data of the Signal iterated over
IterShapes == {<<2, 2>>, <<2, 2, 2>>}

InitIter ==
    \E shape \in IterShapes :
        \/ \E st \in {Constructed(shape, "float64", 1, 44100, None, "time",
                                   "none")} : Start(st)
        \/ \E st \in {Constructed(shape, "complex128", 1, 44100, 2, "freq",
                                   "none")} : Start(st)

\* the client uses s between the steps, and x once it has one
NextIter ==
    \/ Iter
    \/ NextStep
    \/ ReadTime(1)
    \/ ReadFreq(1)
    \/ IterWriteTime
    \/ IterWriteFreq
    \/ IterSetFftNorm
    \/ SetSamplingRate(1)
    \/ iter.pos > 0 /\ ReadTime(IterObj)
    \/ iter.pos > 0 /\ ReadFreq(IterObj)

SpecIter == InitIter /\ [][NextIter]_vars

----------------------------------------------------------------------------
(* A client that constructs Signals and changes the convention of one there
   and back, SpecMake *)

\* what clients pass as n_samples
ClientSamples == {None} \cup 0..(2 * MaxLen)

\* the arguments of Signal(data, sampling_rate, n_samples, domain, fft_norm)
\* a step records: data and n_samples, and the domain
Passed(data, n_samples, domain) ==
    [NoArgs EXCEPT !.data = <<ValOperand(data),
                              ValOperand(NumArr(<<>>, "int64", n_samples))>>,
                   !.domain = domain]

\* the interpreter once the client has dropped the objects it held
Dropped == [Cur EXCEPT !.sigs = <<>>, !.heap = <<>>, !.iter = NoIter]

\* del s; s = Signal(data, sampling_rate, n_samples, domain, fft_norm)
Construct ==
    \E shape \in ClientShapes, id \in 1..MaxContent,
       sampling_rate \in SamplingRates, n_samples \in ClientSamples,
       domain \in VALID_DOMAINS \cup {"bogus"},
       fft_norm \in VALID_FFT_NORMS \cup {"bogus"} :
        \E kind \in {IF domain = "freq" THEN "complex128" ELSE "float64"} :
            \E s0 \in {New(Dropped, ClientArr(shape, kind, id))} :
                \E st \in {Signal_init(s0, 1, s0.ret, sampling_rate,
                                       n_samples, domain, fft_norm)} :
                    Commit(st, Opr("Signal", 1, fft_norm),
                           Passed(ClientArr(shape, kind, id), n_samples,
                                  domain),
                           Returned(st, 1))

\* a = s.fft_norm; s.fft_norm = value; s.fft_norm = a
ThereAndBack(o) ==
    \E value \in VALID_FFT_NORMS :
        \E s1 \in {Signal_fft_norm_setter(Cur, o, value)} :
            \E st \in {Signal_fft_norm_setter(s1, o, sigs[o].fft_norm)} :
                Commit(st, Opr("fft_norm=,fft_norm=", o, value), NoArgs,
                       ResNone)

NextMake ==
    \/ Construct
    \/ \E o \in DOMAIN sigs :
        \/ ReadTime(o)
        \/ ReadFreq(o)
        \/ ThereAndBack(o)

SpecMake == Init /\ [][NextMake]_vars

----------------------------------------------------------------------------
(* classes TimeData and FrequencyData, and a client of one such object,
   SpecData.  An object carries the fields of both classes; those its class
   does not have keep the value they have in NoData. *)

\* largest value in a coordinate vector a client passes
MaxCoord == 3

NoData == [class |-> "", data |-> NoHandle, domain |-> "", n_samples |-> 0,
           times |-> <<>>, frequencies |-> <<>>, fft_norm |-> ""]

\* np.any(np.diff(v) <= 0) and len(v) > 1
NotIncreasing(v) ==
    Len(v) > 1 /\ \E i \in 1..(Len(v) - 1) : v[i + 1] - v[i] <= 0

\* TimeData.__init__ of the new object o from the array h and the vector
\* times
TimeData_init(st, o, h, times) ==
    LET blank == [NoData EXCEPT !.class = "TimeData", !.data = h,
                                !.domain = "time"]
        s0 == [st EXCEPT !.sigs = (o :> blank) @@ @]
        T(s1) ==
            LET data == Handle2d(s1.ret)
            IN  IF Len(times) # RowLen(data.shape)
                THEN Raise(st, "ValueError")
                ELSE IF NotIncreasing(times) THEN Raise(st, "ValueError")
                ELSE [s1 EXCEPT !.sigs[o].data = data,
                                !.sigs[o].n_samples = RowLen(data.shape),
                                !.sigs[o].times = times]
    IN  Bind(AsArray(s0, h, "float64"), T)

\* FrequencyData.__init__ of the new object o from the array h and the
\* vector frequencies; fft_norm "" is the default None
FrequencyData_init(st, o, h, frequencies, fft_norm) ==
    LET blank == [NoData EXCEPT !.class = "FrequencyData", !.data = h,
                                !.domain = "freq"]
        s0 == [st EXCEPT !.sigs = (o :> blank) @@ @]
        norm == IF fft_norm = "" THEN "none" ELSE fft_norm
        F(s1) ==
            LET data == Handle2d(s1.ret)
            IN  IF Len(frequencies) # RowLen(data.shape)
                THEN Raise(st, "ValueError")
                ELSE IF NotIncreasing(frequencies)
                THEN Raise(st, "ValueError")
                ELSE IF norm \notin VALID_FFT_NORMS
                THEN Raise(st, "ValueError")
                ELSE [s1 EXCEPT !.sigs[o].data = data,
                                !.sigs[o].frequencies = frequencies,
                                !.sigs[o].fft_norm = norm]
    IN  Bind(AsArray(s0, h, "complex128"), F)

\* the vectors clients pass as times or frequencies
Coordinates == UNION {[1..l -> 0..MaxCoord] : l \in 1..MaxLen}

\* d = TimeData(data, times) as object 1
MadeTimeData(shape, id, times) ==
    LET F(s) == TimeData_init(s, 1, s.ret, times)
    IN  Bind(New(Empty, ClientArr(shape, "float64", id)), F)

\* d = FrequencyData(data, frequencies, fft_norm) as object 1
MadeFrequencyData(shape, id, frequencies, fft_norm) ==
    LET F(s) == FrequencyData_init(s, 1, s.ret, frequencies, fft_norm)
    IN  Bind(New(Empty, ClientArr(shape, "complex128", id)), F)

StartData(st, class) ==
    /\ st.err = ""
    /\ sigs = CollectedSigs(st)
    /\ heap = CollectedHeap(st)
    /\ op = Opr(class, 1, "")
    /\ args = NoArgs
    /\ calls = st.calls
    /\ warns = st.warns
    /\ err = ""
    /\ result = ResSig(1)
    /\ iter = NoIter
    /\ axis_modifier = NoModifier

InitData ==
    \E shape \in ClientShapes, id \in 1..MaxContent, v \in Coordinates :
        \/ \E st \in {MadeTimeData(shape, id, v)} : StartData(st, "TimeData")
        \/ \E fft_norm \in VALID_FFT_NORMS \cup {"", "bogus"} :
              \E st \in {MadeFrequencyData(shape, id, v, fft_norm)} :
                  StartData(st, "FrequencyData")

\* x = d.time of a TimeData
DataReadTime(o) ==
    /\ sigs[o].class = "TimeData"
    /\ Commit(Cur, Opr("time", o, ""), NoArgs, ResSig(o))

\* x = d.freq of a FrequencyData
DataReadFreq(o) ==
    /\ sigs[o].class = "FrequencyData"
    /\ Commit(Cur, Opr("freq", o, ""), NoArgs, ResSig(o))

\* d.time = value of a TimeData
DataWriteTime(o) ==
    /\ sigs[o].class = "TimeData"
    /\ \E shape \in ClientShapes, id \in 1..MaxContent :
          \E s0 \in {New(Cur, ClientArr(shape, "float64", id))} :
              \E st \in {TimeData_time_setter(s0, o, s0.ret)} :
                  Commit(st, Opr("time=", o, ""), NoArgs, ResNone)

\* d.freq = value of a FrequencyData
DataWriteFreq(o) ==
    /\ sigs[o].class = "FrequencyData"
    /\ \E shape \in ClientShapes, id \in 1..MaxContent :
          \E s0 \in {New(Cur, ClientArr(shape, "complex128", id))} :
              \E st \in {FrequencyData_freq_setter(s0, o, s0.ret)} :
                  Commit(st, Opr("freq=", o, ""), NoArgs, ResNone)

NextData ==
    \E o \in DOMAIN sigs :
        \/ DataReadTime(o)
        \/ DataReadFreq(o)
        \/ DataWriteTime(o)
        \/ DataWriteFreq(o)

SpecData == InitData /\ [][NextData]_vars

----------------------------------------------------------------------------
(* A client of one Signal that reads, writes, changes the convention and
   computes with it, SpecSync *)

\* what the client combines the Signal with: the Signal itself, the number 2
SyncOperands == {SigOperand(1), ValOperand(NumArr(<<>>, "int64", 2))}

\* r = add((s, other), domain), ... while the client holds no earlier result
SyncCall ==
    /\ ResultObj \notin DOMAIN sigs
    /\ \E fn \in Fns, other \in SyncOperands, domain \in VALID_DOMAINS :
          \E c \in {[data |-> <<SigOperand(1), other>>, domain |-> domain,
                      fn |-> fn, tuple |-> TRUE]} :
              \E st \in {Dispatch(Cur, c)} :
                  Commit(st, Opr("arith", 0, fn), c, Outcome(st))

\* s = r: the name s is bound to the result, the Signal it named is dropped
Rebind ==
    /\ ResultObj \in DOMAIN sigs
    /\ \E st \in {[Cur EXCEPT !.sigs = (1 :> sigs[ResultObj])]} :
          Bounded(st) /\ Commit(st, Opr("rebind", 1, ""), NoArgs, ResSig(1))

\* del r
Forget ==
    /\ ResultObj \in DOMAIN sigs
    /\ \E st \in {[Cur EXCEPT !.sigs = (1 :> sigs[1])]} :
          Commit(st, Opr("del", 0, ""), NoArgs, ResNone)

NextSync ==
    \/ /\ ResultObj \notin DOMAIN sigs
       /\ \/ ReadTime(1)
          \/ ReadFreq(1)
          \/ WriteTime(1)
          \/ WriteFreq(1)
          \/ SetFftNorm(1)
    \/ SyncCall
    \/ Rebind
    \/ Forget

SpecSync == Init /\ [][NextSync]_vars

----------------------------------------------------------------------------
(* Calls of the arithmetic functions with arguments of every sort, valid or
   not, SpecValid *)

\* the operands: the two Signals, a number of a dtype the functions take, of
\* one they do not take, and a complex number
AnyOperands ==
    {SigOperand(1), SigOperand(2)}
        \cup {ValOperand(NumArr(<<>>, k, 2)) : k \in {"int64", "bool", "complex64"}}

\* what the client passes as domain
AnyDomains == VALID_DOMAINS \cup {"frequency"}

\* r = add(data, domain), ..., with data a tuple or a list of two operands
AnyCall ==
    /\ ~Called
    /\ \E fn \in Fns, a \in AnyOperands, b \in AnyOperands,
          domain \in AnyDomains, is_tuple \in BOOLEAN :
          \E c \in {[data |-> <<a, b>>, domain |-> domain, fn |-> fn,
                      tuple |-> is_tuple]} :
              \E st \in {Dispatch(Cur, c)} :
                  Commit(st, Opr("arith", 0, fn), c, Outcome(st))

NextValid == AnyCall \/ DropValue

SpecValid == InitArith /\ [][NextValid]_vars

----------------------------------------------------------------------------
(* Channel assignment between Signals in any two domains, SpecAssign *)

\* s = Signal(x1, 44100, ...) of two channels and v = Signal(x2, ...) of
\* one, each in a domain of its own
InitAssign ==
    \E l1 \in ShareLens, l2 \in {SetMax(ShareLens)}, rate2 \in SamplingRates,
       domain1 \in VALID_DOMAINS, domain2 \in VALID_DOMAINS,
       norm2 \in ShareNorms :
        \E st1 \in {Constructed(<<2, l1>>, ShareKind(domain1), 1, 44100,
                                IF domain1 = "time" THEN None ELSE 2, domain1,
                                "none")} :
            \E s2 \in {New(st1, ClientArr(<<l2>>, ShareKind(domain2), 2))} :
                \E st2 \in {Signal_init(s2, 2, s2.ret, rate2,
                                        IF domain2 = "time" THEN None ELSE 2,
                                        domain2, norm2)} :
                    /\ st1.err = "" /\ st2.err = ""
                    /\ sigs = CollectedSigs(st2)
                    /\ heap = CollectedHeap(st2)
                    /\ op = Opr("Signal", 2, NoKey)
                    /\ args = NoArgs
                    /\ calls = <<>>
                    /\ warns = 0
                    /\ err = ""
                    /\ result = ResSig(2)
                    /\ iter = NoIter
                    /\ axis_modifier = NoModifier

NextAssign == \E o \in DOMAIN sigs : SetItem(o)

SpecAssign == InitAssign /\ [][NextAssign]_vars

----------------------------------------------------------------------------
(* Key presses on a line plot, SpecKeys *)

\* the keys the user presses: those the two handlers take, and another
Keys == {"*", "]", "[", "/", "7", "a", "up"}

\* one key_press_event: the canvas calls the handlers connected to it,
\* cycle_lines and toggle_all_lines, in that order
KeyPress ==
    \E key \in Keys :
        /\ axis_modifier' =
               toggle_all_lines(cycle_lines(axis_modifier, key), key)
        /\ op' = Opr("key", 0, key)
        /\ UNCHANGED <<sigs, heap, args, calls, warns, err, result, iter>>

\* a plot of 1 to MaxLines lines, just made
InitKeys ==
    /\ \E n \in 1..MaxLines : axis_modifier = AxisModifierLines_init(n)
    /\ sigs = <<>>
    /\ heap = <<>>
    /\ op = Opr("plot", 0, "")
    /\ args = NoArgs
    /\ calls = <<>>
    /\ warns = 0
    /\ err = ""
    /\ result = ResNone
    /\ iter = NoIter

NextKeys == KeyPress

SpecKeys == InitKeys /\ [][NextKeys]_vars

----------------------------------------------------------------------------
(* A client that runs one iteration to its end, SpecLoop: the for statement
   calls __next__ again and again, so the step is taken whenever it stays
   possible; the Signal iterated over keeps its domain *)

\* it = iter(s), once
LoopIter == iter.signal = 0 /\ Iter

NextLoop ==
    \/ LoopIter
    \/ NextStep
    \/ IterSetFftNorm
    \/ SetSamplingRate(1)
    \/ iter.pos > 0 /\ ReadTime(IterObj)
    \/ iter.pos > 0 /\ ReadFreq(IterObj)

SpecLoop == InitIter /\ [][NextLoop]_vars /\ WF_vars(NextStep)

----------------------------------------------------------------------------
(* Two iterators over one Signal the client leaves alone, SpecTwo *)

\* the Signal object the second iterator makes for itself
OtherObj == 3

\* the two iterators the client holds, exchanged
Swapped(st) ==
    [st EXCEPT !.iter = [signal |-> st.iter.other.signal,
                         iterated_sig |-> st.iter.other.iterated_sig,
                         array |-> st.iter.other.array,
                         pos |-> st.iter.other.pos,
                         tag |-> st.iter.other.tag,
                         other |-> [signal |-> st.iter.signal,
                                    iterated_sig |-> st.iter.iterated_sig,
                                    array |-> st.iter.array,
                                    pos |-> st.iter.pos,
                                    tag |-> st.iter.tag]]]

\* it2 = iter(s)
SecondIter ==
    \E st \in {Swapped(__iter__(Swapped(Cur), 1, OtherObj))} :
        Commit(st, Opr("iter", 1, "second"), NoArgs, ResNone)

\* y = next(it2)
SecondNext ==
    /\ iter.other.signal # 0
    /\ \E st \in {Swapped(__next__(Swapped(Cur)))} :
          Commit(st, Opr("next", 1, "second"), NoArgs, Returned(st, OtherObj))

NextTwo ==
    \/ Iter
    \/ NextStep
    \/ SecondIter
    \/ SecondNext

SpecTwo == InitIter /\ [][NextTwo]_vars

----------------------------------------------------------------------------
(* Properties of one Signal, checked under Spec *)

\* the array object o holds
Buf(o) == View(Cur, sigs[o].data)

\* the trailing axis of the buffer fits the domain tag and n_samples
DomainLength(o) ==
    /\ sigs[o].domain = "time" =>
           RowLen(sigs[o].data.shape) = sigs[o].n_samples
    /\ sigs[o].domain = "freq" =>
           RowLen(sigs[o].data.shape) = sigs[o].n_samples \div 2 + 1

DomainLengthInv == \A o \in DOMAIN sigs : DomainLength(o)

\* C1: a Signal that satisfies the domain/length invariant (time: trailing
\* axis = n_samples, freq: trailing axis = floor(n_samples/2)+1) satisfies it
\* after every time read, freq read, time write, freq write, fft_norm change
\* and sampling_rate change.
C1_DomainLengthKept == [][DomainLengthInv => DomainLengthInv']_vars

\* a freq read has converted a Signal of three samples to two bins
C1_Witness ==
    /\ op.name = "freq" /\ Len(calls) = 1
    /\ sigs[1].n_samples = 3 /\ sigs[1].domain = "freq"
    /\ RowLen(sigs[1].data.shape) = 2

ReadOf(d) == IF d = "freq" THEN "rfft" ELSE "irfft"

\* C2: a read of domain d calls the transform (rfft for freq, irfft for
\* time) exactly when the domain tag is not d, so a read that follows a read
\* of the same domain calls nothing; after the read the domain tag is d.
C2_ReadsIdempotent ==
    [][\A d \in VALID_DOMAINS :
          op'.name = d =>
              /\ sigs[1].domain # d =>
                     Len(calls') = 1 /\ calls'[1].k = ReadOf(d)
              /\ sigs[1].domain = d => calls' = <<>>
              /\ (op.name = d /\ err = "") => calls' = <<>>
              /\ err' = "" => sigs'[1].domain = d]_vars

\* a second freq read in a row, served from the converted buffer
C2_Witness ==
    /\ op.name = "freq" /\ calls = <<>> /\ err = ""
    /\ sigs[1].domain = "freq"
    /\ \E i \in DOMAIN Buf(1).rows : Last(Buf(1).rows[i]).k = "rfft"

\* C3: a time or freq read leaves n_samples as it was, odd or even, and
\* emits no warning.
C3_ReadsKeepNSamples ==
    [][op'.name \in VALID_DOMAINS =>
          /\ sigs'[1].n_samples = sigs[1].n_samples
          /\ warns' = 0]_vars

\* a time read has converted two bins back to an odd number of samples
C3_Witness ==
    /\ op.name = "time" /\ Len(calls) = 1 /\ err = ""
    /\ sigs[1].n_samples = 3 /\ sigs[1].domain = "time"
    /\ RowLen(sigs[1].data.shape) = 3

\* C10: setting fft_norm to another valid convention in the frequency domain
\* calls normalization twice, first inverse with the old convention, then
\* forward with the new one, and the label is the new one afterwards; setting
\* it to the current convention calls nothing and leaves the buffer alone.
C10_FftNormSetterOrder ==
    [][op'.name = "fft_norm=" =>
          LET old == sigs[1]
              new == op'.a
          IN  /\ (new \in VALID_FFT_NORMS /\ new # old.fft_norm
                    /\ old.domain = "freq") =>
                     /\ calls' = <<Tok("denorm", old.fft_norm, old.n_samples,
                                       old.sampling_rate),
                                   Tok("norm", new, old.n_samples,
                                       old.sampling_rate)>>
                     /\ sigs'[1].fft_norm = new
                     /\ Buf(1)' = normalization(
                            normalization(Buf(1), old.n_samples,
                                old.sampling_rate, old.fft_norm, TRUE),
                            old.n_samples, old.sampling_rate, new, FALSE)
              /\ new = old.fft_norm =>
                     /\ calls' = <<>>
                     /\ Buf(1)' = Buf(1)
                     /\ sigs'[1].fft_norm = new]_vars

\* a spectrum labelled rms has been re-normalized to another convention
C10_Witness ==
    /\ op.name = "fft_norm=" /\ Len(calls) = 2 /\ err = ""
    /\ calls[1].k = "denorm" /\ calls[1].c = "rms"
    /\ calls[2].k = "norm" /\ calls[2].c = "psd"
    /\ sigs[1].fft_norm = "psd" /\ sigs[1].domain = "freq"

----------------------------------------------------------------------------
(* Properties of the arithmetic functions, checked under SpecArith.  In an
   action formula `sigs` is the operands before the call and `args'` the
   call. *)

\* the Signal operands of the tuple, in tuple order
SignalsOf(data) == SelectSeq(data, IsSignal)

\* two Signal operands of the tuple differ in sampling_rate or n_samples
Mismatch(data) ==
    \E i, j \in DOMAIN data :
        /\ IsSignal(data[i]) /\ IsSignal(data[j])
        /\ \/ sigs[data[i].o].sampling_rate # sigs[data[j].o].sampling_rate
           \/ sigs[data[i].o].n_samples # sigs[data[j].o].n_samples

\* C5: add, subtract, multiply, divide and power fail whenever two Signal
\* operands anywhere in the tuple differ in sampling_rate or in n_samples,
\* whatever the order of the operands and whatever non-Signal operands stand
\* between them; no result is returned.
C5_MismatchRejected ==
    [][(op'.name = "arith" /\ Mismatch(args'.data)) =>
          /\ err' # ""
          /\ result' = ResNone
          /\ ResultObj \notin DOMAIN sigs']_vars

\* a call was rejected whose Signals differ in n_samples only, the longer one
\* first and an array between them
C5_Witness ==
    /\ op.name = "arith" /\ err = "ValueError"
    /\ Len(args.data) = 3
    /\ args.data[1] = SigOperand(2) /\ ~IsSignal(args.data[2])
    /\ args.data[3] = SigOperand(1)
    /\ sigs[1].sampling_rate = sigs[2].sampling_rate
    /\ sigs[1].n_samples # sigs[2].n_samples

\* the convention of the first Signal operand that is not 'none', or 'none'
ChosenNorm(data) ==
    LET Power(d) == IsSignal(d) /\ sigs[d.o].fft_norm # "none"
        power_signals == SelectSeq(data, Power)
    IN  IF power_signals = <<>> THEN "none"
        ELSE sigs[power_signals[1].o].fft_norm

\* shape of operand d's data in the domain of the call
OperandShape(d, domain) ==
    IF ~IsSignal(d) THEN d.a.shape
    ELSE IF sigs[d.o].domain = domain THEN sigs[d.o].data.shape
    ELSE CShape(sigs[d.o].data.shape)
             \o <<IF domain = "time" THEN sigs[d.o].n_samples
                  ELSE _n_bins(sigs[d.o].n_samples)>>

\* the operands still to come broadcast, one after the other, with shape acc
RECURSIVE Broadcasts(_, _, _)
Broadcasts(acc, data, domain) ==
    \/ data = <<>>
    \/ /\ BroadcastOK(acc, OperandShape(Head(data), domain))
       /\ Broadcasts(BroadcastShape(acc, OperandShape(Head(data), domain)),
                     Tail(data), domain)

\* C6: the convention of an arithmetic result is 'none' if every Signal
\* operand uses 'none', and otherwise that of the first Signal operand, in
\* tuple order, whose convention is not 'none'; conventions that disagree
\* are no error: a call whose Signals agree in sampling_rate and n_samples
\* and whose operands broadcast succeeds.
C6_FirstConventionWins ==
    [][(op'.name = "arith" /\ SignalsOf(args'.data) # <<>>) =>
          /\ err' = "" =>
                 sigs'[ResultObj].fft_norm = ChosenNorm(args'.data)
          /\ (/\ ~Mismatch(args'.data)
              /\ Broadcasts(OperandShape(args'.data[1], args'.domain),
                            Tail(args'.data), args'.domain)) => err' = ""]_vars

\* Signals labelled rms and psd were combined, the psd one first after a
\* number: the result is labelled psd
C6_Witness ==
    /\ op.name = "arith" /\ err = "" /\ Len(args.data) = 3
    /\ ~IsSignal(args.data[1])
    /\ args.data[2] = SigOperand(2) /\ args.data[3] = SigOperand(1)
    /\ sigs[1].fft_norm = "rms" /\ sigs[2].fft_norm = "psd"
    /\ sigs[ResultObj].fft_norm = "psd"

\* C7: whenever an arithmetic call with at least one Signal operand succeeds,
\* the result is a Signal whose sampling_rate and n_samples are those common
\* to the Signal operands, whose domain is the requested domain and whose
\* fft_norm is the chosen convention, for every combination of Signal, array
\* and scalar operands that broadcast together.
C7_ResultMetaData ==
    [][(op'.name = "arith" /\ err' = "" /\ SignalsOf(args'.data) # <<>>) =>
          /\ result' = ResSig(ResultObj)
          /\ LET first == sigs[SignalsOf(args'.data)[1].o]
                 r == sigs'[ResultObj]
             IN  /\ r.sampling_rate = first.sampling_rate
                 /\ r.n_samples = first.n_samples
                 /\ r.domain = args'.domain
                 /\ r.fft_norm = ChosenNorm(args'.data)]_vars

\* the Signal objects among the operands
OperandObjs(data) == {data[i].o : i \in {j \in DOMAIN data : IsSignal(data[j])}}

\* C8 as stated: after an arithmetic call every Signal operand has the same
\* buffer, domain tag, n_samples, sampling_rate and fft_norm as before the
\* call, whatever domain it was in and whatever domain was requested.
C8_OperandsUntouched ==
    [][op'.name = "arith" =>
          \A o \in OperandObjs(args'.data) :
              /\ sigs'[o].domain = sigs[o].domain
              /\ sigs'[o].n_samples = sigs[o].n_samples
              /\ sigs'[o].sampling_rate = sigs[o].sampling_rate
              /\ sigs'[o].fft_norm = sigs[o].fft_norm
              /\ Buf(o)' = Buf(o)]_vars

\* the buffer of object o in new_domain, as the transform service gives it
Transformed(o, new_domain) ==
    IF new_domain = "time"
    THEN irfft(Buf(o), sigs[o].n_samples, sigs[o].sampling_rate,
               sigs[o].fft_norm)
    ELSE rfft(Buf(o), sigs[o].n_samples, sigs[o].sampling_rate,
              sigs[o].fft_norm)

\* C8 (amended): an arithmetic call leaves n_samples, sampling_rate and
\* fft_norm of every Signal operand as they were; an operand whose domain tag
\* is the same after the call has the same buffer; an operand whose tag has
\* changed is in the requested domain and its buffer is the transform of the
\* buffer it had; after a call that succeeds every Signal operand is in the
\* requested domain.
C8_OperandsOnlyConverted ==
    [][op'.name = "arith" =>
          \A o \in OperandObjs(args'.data) :
              /\ sigs'[o].n_samples = sigs[o].n_samples
              /\ sigs'[o].sampling_rate = sigs[o].sampling_rate
              /\ sigs'[o].fft_norm = sigs[o].fft_norm
              /\ sigs'[o].domain = sigs[o].domain => Buf(o)' = Buf(o)
              /\ sigs'[o].domain # sigs[o].domain =>
                     /\ sigs'[o].domain = args'.domain
                     /\ Buf(o)' = Transformed(o, args'.domain)
              /\ err' = "" => sigs'[o].domain = args'.domain]_vars

\* a call in the frequency domain, on a Signal of three samples labelled psd
\* that was in the time domain, left it as a spectrum of two bins
C8_Witness ==
    /\ op.name = "arith" /\ err = "" /\ args.domain = "freq"
    /\ SigOperand(2) \in {args.data[i] : i \in DOMAIN args.data}
    /\ Len(calls) > 0 /\ calls[1].k = "rfft"
    /\ sigs[2].domain = "freq" /\ sigs[2].fft_norm = "psd"
    /\ sigs[2].n_samples = 3 /\ RowLen(sigs[2].data.shape) = 2

\* what a call in the frequency domain asks of the transform service and of
\* numpy, operand i of the tuple first; seen: the Signals read before
RECURSIVE ExpectedCalls(_, _, _, _, _)
ExpectedCalls(data, i, seen, n_samples, fn) ==
    IF i > Len(data) THEN <<>>
    ELSE LET d == data[i]
             sg == sigs[d.o]
             transform ==
                 IF IsSignal(d) /\ d.o \notin seen /\ sg.domain = "time"
                 THEN <<Tok("rfft", sg.fft_norm, sg.n_samples,
                            sg.sampling_rate)>>
                 ELSE <<>>
             denorm ==
                 IF IsSignal(d) /\ sg.fft_norm # "none"
                 THEN <<Tok("denorm", sg.fft_norm, n_samples,
                            sg.sampling_rate)>>
                 ELSE <<>>
             combine == IF i > 1 THEN <<Tok(fn, "", i, 0)>> ELSE <<>>
         IN  transform \o denorm \o combine
                 \o ExpectedCalls(data, i + 1,
                        seen \cup (IF IsSignal(d) THEN {d.o} ELSE {}),
                        n_samples, fn)

\* operand d as it enters the combination in the frequency domain
Entering(d, n_samples) ==
    IF ~IsSignal(d) THEN d.a
    ELSE normalization(IF sigs[d.o].domain = "freq" THEN Buf(d.o)
                       ELSE Transformed(d.o, "freq"),
                       n_samples, sigs[d.o].sampling_rate,
                       sigs[d.o].fft_norm, TRUE)

\* ((d1 fn d2) fn d3) ...
RECURSIVE LeftToRight(_, _, _, _)
LeftToRight(acc, data, n_samples, fn) ==
    IF data = <<>> THEN acc
    ELSE LeftToRight(operation(fn, acc, Entering(Head(data), n_samples)),
                     Tail(data), n_samples, fn)

\* C9: in a frequency-domain arithmetic call each Signal operand is
\* de-normalized with its own convention before it enters the combination,
\* the other operands enter as they are, the operands are combined left to
\* right in tuple order, and the combined buffer is normalized exactly once,
\* after the last combination, with the chosen convention.
C9_NormalizedOnceAtEnd ==
    [][(/\ op'.name = "arith" /\ args'.domain = "freq" /\ err' = ""
        /\ SignalsOf(args'.data) # <<>>) =>
          LET data == args'.data
              first == sigs[SignalsOf(data)[1].o]
              n == first.n_samples
              fn == args'.fn
              chosen == ChosenNorm(data)
          IN  /\ calls' = ExpectedCalls(data, 1, {}, n, fn)
                     \o <<Tok("norm", chosen, n, first.sampling_rate)>>
              /\ Buf(ResultObj)' =
                     normalization(
                         LeftToRight(Entering(data[1], n), Tail(data), n, fn),
                         n, first.sampling_rate, chosen, FALSE)]_vars

\* rms * array * psd in the frequency domain: two transforms, each spectrum
\* de-normalized with its own convention, two products, one normalization
C9_Witness ==
    /\ op.name = "arith" /\ err = "" /\ args.domain = "freq"
    /\ args.fn = "multiply" /\ Len(args.data) = 3
    /\ args.data[1] = SigOperand(1) /\ ~IsSignal(args.data[2])
    /\ args.data[3] = SigOperand(2)
    /\ Len(calls) = 7
    /\ calls[2].k = "denorm" /\ calls[2].c = "rms"
    /\ calls[5].k = "denorm" /\ calls[5].c = "psd"
    /\ calls[6].k = "multiply" /\ calls[6].n = 3
    /\ calls[7].k = "norm" /\ calls[7].c = "rms"
    /\ \A i \in 1..6 : calls[i].k # "norm"

----------------------------------------------------------------------------
(* Properties of Signals made from one another, checked under SpecShare *)

\* C4: no two Signal objects share a mutable buffer: a channel assignment
\* s[key] = v through one Signal never changes the data another Signal holds,
\* however that Signal was made (copy, reshape, flatten, s[key]).
C4_NoSharedBuffer ==
    [][op'.name = "setitem" =>
          \A p \in DOMAIN sigs \ {op'.o} : Buf(p)' = Buf(p)]_vars

----------------------------------------------------------------------------
(* More properties of one Signal, checked under Spec *)

\* C11: setting fft_norm to a valid convention while the Signal is in the
\* time domain changes the convention label only: buffer, domain tag,
\* n_samples and sampling_rate stay and neither a transform nor a
\* normalization is called.
C11_TimeDomainLabelOnly ==
    [][(/\ op'.name = "fft_norm=" /\ op'.a \in VALID_FFT_NORMS
        /\ sigs[1].domain = "time") =>
          /\ err' = "" /\ calls' = <<>>
          /\ sigs'[1].fft_norm = op'.a
          /\ sigs'[1].domain = "time"
          /\ sigs'[1].n_samples = sigs[1].n_samples
          /\ sigs'[1].sampling_rate = sigs[1].sampling_rate
          /\ Buf(1)' = Buf(1)]_vars

\* a Signal holding its client's time data has been relabelled psd
C11_Witness ==
    /\ op.name = "fft_norm=" /\ op.a = "psd" /\ err = "" /\ calls = <<>>
    /\ sigs[1].domain = "time" /\ sigs[1].fft_norm = "psd"
    /\ \A i \in DOMAIN Buf(1).rows : Len(Buf(1).rows[i]) = 1

\* C12: setting fft_norm to a name that is none of the six conventions
\* fails and leaves the buffer, the domain tag and the convention label as
\* they were, in either domain.
C12_UnknownConventionRejected ==
    [][(op'.name = "fft_norm=" /\ op'.a \notin VALID_FFT_NORMS) =>
          /\ err' # "" /\ calls' = <<>>
          /\ sigs'[1].fft_norm = sigs[1].fft_norm
          /\ sigs'[1].domain = sigs[1].domain
          /\ Buf(1)' = Buf(1)]_vars

\* an unknown name was refused by a spectrum labelled rms
C12_Witness ==
    /\ op.name = "fft_norm=" /\ op.a = "bogus" /\ err = "ValueError"
    /\ sigs[1].domain = "freq" /\ sigs[1].fft_norm = "rms"

\* C13: a frequency-domain write sets the domain tag to freq and calls no
\* transform; when the trailing axis written has the current number of bins,
\* floor(n_samples/2)+1, n_samples stays and no warning is emitted, otherwise
\* n_samples becomes 2*(bins written - 1) and one warning is emitted.
C13_FreqWrite ==
    [][op'.name = "freq=" =>
          LET bins == RowLen(sigs'[1].data.shape)
          IN  /\ err' = "" /\ calls' = <<>>
              /\ sigs'[1].domain = "freq"
              /\ bins = sigs[1].n_samples \div 2 + 1 =>
                     sigs'[1].n_samples = sigs[1].n_samples /\ warns' = 0
              /\ bins # sigs[1].n_samples \div 2 + 1 =>
                     sigs'[1].n_samples = 2 * (bins - 1) /\ warns' = 1]_vars

\* two bins were written to a Signal of three samples, which it still has
C13_Witness ==
    /\ op.name = "freq=" /\ warns = 0 /\ sigs[1].domain = "freq"
    /\ sigs[1].n_samples = 3 /\ RowLen(sigs[1].data.shape) = 2

\* three bins were written to a Signal that then has four samples
C13_WitnessRecomputed ==
    /\ op.name = "freq=" /\ warns = 1 /\ sigs[1].domain = "freq"
    /\ sigs[1].n_samples = 4 /\ RowLen(sigs[1].data.shape) = 3

----------------------------------------------------------------------------
(* More properties of Signals made from one another, checked under SpecShare *)

\* sampling_rate, n_samples and fft_norm of two Signal records agree
SameMetaData(a, b) ==
    /\ a.sampling_rate = b.sampling_rate
    /\ a.n_samples = b.n_samples
    /\ a.fft_norm = b.fft_norm

\* C14: whenever s[key] returns a value for an int, slice or tuple key, the
\* value is a Signal with the domain, sampling_rate, n_samples and fft_norm of
\* s, and its trailing axis is as long as that of s.
C14_ItemMetaData ==
    [][(op'.name = "getitem" /\ err' = "") =>
          /\ result'.k = "signal"
          /\ \A o \in {op'.o}, r \in {result'.o} :
                 /\ sigs'[r].domain = sigs[o].domain
                 /\ SameMetaData(sigs'[r], sigs[o])
                 /\ RowLen(sigs'[r].data.shape) = RowLen(sigs[o].data.shape)]_vars

\* the value of the last s[key] = v: a Signal object, 0 if v is no Signal
Value == args.data[1].o

\* C15: s[key] = v fails whenever v is no Signal or differs from s in
\* sampling_rate, n_samples or fft_norm, and then the buffer, the channel
\* shape, the domain and the metadata of s are what they were.
C15_MismatchedValueRejected ==
    [][(/\ op'.name = "setitem"
        /\ \/ Value' = 0
           \/ ~SameMetaData(sigs[op'.o], sigs[Value'])) =>
          /\ err' # ""
          /\ \A o \in {op'.o} :
                 /\ Buf(o)' = Buf(o)
                 /\ sigs'[o].data.shape = sigs[o].data.shape
                 /\ sigs'[o].domain = sigs[o].domain
                 /\ SameMetaData(sigs'[o], sigs[o])]_vars

\* s[0] = v was rejected because only the fft norms differ
C15_Witness ==
    /\ op.name = "setitem" /\ op.o = 1 /\ op.a = IntKey(0)
    /\ Value = 2
    /\ err = "ValueError"
    /\ sigs[1].sampling_rate = sigs[2].sampling_rate
    /\ sigs[1].n_samples = sigs[2].n_samples
    /\ sigs[1].fft_norm = "none" /\ sigs[2].fft_norm = "rms"

\* the key indexes the channel axes of the array only
KeyOverChannels(h, key) ==
    /\ key.kind \in {"int", "slice", "tuple"}
    /\ InBounds(h, key)
    /\ ~IsElement(h, key)

\* an array of shape vshape can be assigned to an array of shape shape
Fits(vshape, shape) ==
    LET vs == Squeezed(vshape, Len(shape))
    IN  /\ Len(vs) <= Len(shape)
        /\ BroadcastOK(vs, shape)
        /\ BroadcastShape(vs, shape) = shape

\* C16: s[key] = v succeeds for an int key, a slice key and a tuple key over
\* the channel axes when v is a Signal with the metadata of s whose data
\* fits the selected channels.
C16_WriteAcceptsReadKeys ==
    [][(/\ op'.name = "setitem"
        /\ Value' # 0
        /\ SameMetaData(sigs[op'.o], sigs[Value'])
        /\ KeyOverChannels(sigs[op'.o].data, op'.a)
        /\ Fits(sigs[Value'].data.shape,
                Item(sigs[op'.o].data, op'.a).shape)) =>
          err' = ""]_vars

\* the channel shape cshape is the requested one, -1 standing for any length
Requested(cshape, newshape) ==
    /\ Len(cshape) = Len(newshape)
    /\ \A i \in DOMAIN newshape : newshape[i] \in {-1, cshape[i]}

\* C20: after s.reshape(newshape) or s.flatten() succeeds, the buffer, the
\* channel shape, the domain and the metadata of s are unchanged and the new
\* Signal returned has the requested channel shape and the trailing-axis
\* length, domain and metadata of s.
C20_ReshapeFrame ==
    [][(op'.name \in {"reshape", "flatten"} /\ err' = "") =>
          /\ result'.k = "signal"
          /\ \A o \in {op'.o}, r \in {result'.o} :
                 /\ r \notin DOMAIN sigs
                 /\ Buf(o)' = Buf(o)
                 /\ sigs'[o].data.shape = sigs[o].data.shape
                 /\ sigs'[o].domain = sigs[o].domain
                 /\ SameMetaData(sigs'[o], sigs[o])
                 /\ sigs'[r].domain = sigs[o].domain
                 /\ SameMetaData(sigs'[r], sigs[o])
                 /\ RowLen(sigs'[r].data.shape) = RowLen(sigs[o].data.shape)
                 /\ Requested(CShape(sigs'[r].data.shape),
                              IF op'.name = "reshape" THEN op'.a.idx
                              ELSE <<NRows(sigs[o].data.shape)>>)]_vars

----------------------------------------------------------------------------
(* Properties of iteration, checked under SpecIter *)

\* the Signal iterated over still holds the array the iterator runs over,
\* and the Signal of the iterator is in the same domain
Undisturbed ==
    /\ iter.signal = 1
    /\ sigs[1].data = iter.array
    /\ sigs[IterObj].domain = sigs[1].domain

\* C17: iterating a Signal yields one Signal per channel, in row-major order
\* of the channel positions, and then ends: step number i returns a Signal
\* of one channel with the n_samples of the Signal iterated over and the data
\* of channel i, and the step after the last channel ends the iteration.
C17_IterationYieldsChannels ==
    [][(op'.name = "next" /\ Undisturbed) =>
          IF iter.pos < NRows(sigs[1].data.shape)
          THEN /\ err' = ""
               /\ result' = ResSig(IterObj)
               /\ NRows(sigs'[IterObj].data.shape) = 1
               /\ sigs'[IterObj].n_samples = sigs[1].n_samples
               /\ Buf(IterObj)'.rows = <<Buf(1).rows[iter.pos + 1]>>
          ELSE err' = "StopIteration"]_vars

\* C18: a Signal returned by a step of an iteration has the n_samples,
\* sampling_rate, domain and fft_norm the Signal iterated over has at that
\* moment.
C18_YieldedMetaData ==
    [][(op'.name = "next" /\ err' = "") =>
          /\ result' = ResSig(IterObj)
          /\ sigs'[IterObj].domain = sigs'[1].domain
          /\ SameMetaData(sigs'[IterObj], sigs'[1])]_vars

\* C19: when the domain tag of the Signal iterated over is not what it was
\* at the previous step of the iteration, the step raises RuntimeError and
\* returns nothing.
C19_DomainChangeDetected ==
    [][(/\ op'.name = "next"
        /\ iter.tag \in VALID_DOMAINS
        /\ sigs[1].domain # iter.tag) =>
          err' = "RuntimeError" /\ result' = ResNone]_vars

----------------------------------------------------------------------------
(* Properties of reshape, checked under SpecShare *)

\* the number of -1 entries of a requested shape
Wildcards(newshape) == Len(newshape) - Len(Known(newshape))

\* the number of channels of object o
Channels(o) == NRows(sigs[o].data.shape)

\* C21: reshape to a channel shape (without a -1 entry) whose element count
\* is not the number of channels of the Signal fails and returns no Signal.
C21_ReshapeCountMismatch ==
    [][(/\ op'.name = "reshape"
        /\ Wildcards(op'.a.idx) = 0
        /\ Prod(op'.a.idx) # Channels(op'.o)) =>
          /\ err' # ""
          /\ result' = ResNone
          /\ DOMAIN sigs' = DOMAIN sigs]_vars

\* s.reshape((3,)) on the Signal of two channels was rejected
C21_Witness ==
    /\ op.name = "reshape" /\ op.o = 1 /\ op.a.idx = <<3>>
    /\ Channels(1) = 2
    /\ err = "ValueError" /\ result = ResNone

\* C22: reshape to a channel shape with two or more -1 entries fails and
\* returns no Signal, and so does reshape to a shape with one -1 entry when
\* the number of channels is not a multiple of the product of the others.
C22_OneWildcard ==
    [][(/\ op'.name = "reshape"
        /\ \/ Wildcards(op'.a.idx) >= 2
           \/ /\ Wildcards(op'.a.idx) = 1
              /\ Channels(op'.o) % Prod(Known(op'.a.idx)) # 0) =>
          /\ err' # ""
          /\ result' = ResNone]_vars

----------------------------------------------------------------------------
(* More properties of the arithmetic functions, checked under SpecArith *)

\* two Signal operands of the tuple carry different conventions
NormsDiffer(data) ==
    \E i, j \in DOMAIN data :
        /\ IsSignal(data[i]) /\ IsSignal(data[j])
        /\ sigs[data[i].o].fft_norm # sigs[data[j].o].fft_norm

\* C25: an arithmetic call whose Signal operands carry different conventions
\* (and agree in sampling_rate and n_samples, with operands that broadcast)
\* returns a result and emits a warning.
C25_DisagreementWarned ==
    [][(/\ op'.name = "arith"
        /\ NormsDiffer(args'.data)
        /\ ~Mismatch(args'.data)
        /\ Broadcasts(OperandShape(args'.data[1], args'.domain),
                      Tail(args'.data), args'.domain)) =>
          /\ err' = ""
          /\ result' = ResSig(ResultObj)
          /\ warns' > 0]_vars

----------------------------------------------------------------------------
(* Properties of calls on a Signal and one other operand, checked under
   SpecOps *)

\* the function an operator is said to stand for
NamedFn(sym) ==
    CASE sym = "+" -> "add"
      [] sym = "-" -> "subtract"
      [] sym = "*" -> "multiply"
      [] sym = "/" -> "divide"
      [] sym = "**" -> "power"

\* C23: s + other, s - other, s * other, s / other and s ** other do what
\* add, subtract, multiply, divide and power do when called with the pair
\* (s, other) and the domain 'freq': the same result or error, the same
\* effect on the operands, and a result in the frequency domain.
C23_OperatorsDelegate ==
    [][op'.name = "operator" =>
          /\ args'.data[1] = SigOperand(op'.o)
          /\ \E st \in {Dispatch(Cur, [data |-> args'.data, domain |-> "freq",
                                        fn |-> NamedFn(op'.a),
                                        tuple |-> TRUE])} :
                 /\ sigs' = CollectedSigs(st)
                 /\ heap' = CollectedHeap(st)
                 /\ err' = st.err
                 /\ calls' = st.calls
                 /\ warns' = st.warns
                 /\ result' = Outcome(st)
          /\ err' = "" => sigs'[ResultObj].domain = "freq"]_vars

\* s1 - s2 on two Signals in the time domain returned a Signal in the
\* frequency domain
C23_Witness ==
    /\ op.name = "operator" /\ op.a = "-" /\ op.o = 1
    /\ args.data[2] = SigOperand(2)
    /\ err = "" /\ result = ResSig(ResultObj)
    /\ sigs[ResultObj].domain = "freq"

\* the dtypes a non-Signal operand may have: signed and unsigned integers,
\* 32 and 64 bit floats, 64 and 128 bit complex numbers
ListedKinds ==
    {"int8", "int16", "int32", "int64", "uint8", "uint16", "uint32", "uint64",
     "float32", "float64", "complex64", "complex128"}

\* C24: a call on a Signal and a number succeeds if the dtype of the number
\* is a signed or unsigned integer, a 32 or 64 bit float or a 64 or 128 bit
\* complex (complex numbers in the frequency domain only), and fails for
\* every other dtype.
C24_KindWhitelist ==
    [][(/\ op'.name = "arith"
        /\ ~IsSignal(args'.data[2])
        /\ ~(args'.data[2].a.kind \in ComplexTypes /\ args'.domain = "time")) =>
          (err' = "" <=> args'.data[2].a.kind \in ListedKinds)]_vars

\* C29: add((s, 0), 'time') returns a Signal in the time domain whose buffer
\* is the time-domain buffer of s and whose sampling_rate, n_samples and
\* fft_norm are those of s.
C29_ZeroIsIdentity ==
    [][(/\ op'.name = "arith" /\ op'.a = "add" /\ args'.domain = "time"
        /\ args'.data[2] = ValOperand(NumArr(<<>>, "int64", 0))) =>
          /\ err' = ""
          /\ result' = ResSig(ResultObj)
          /\ \A o \in {args'.data[1].o} :
                 /\ sigs'[ResultObj].domain = "time"
                 /\ SameMetaData(sigs'[ResultObj], sigs[o])
                 /\ sigs'[o].domain = "time"
                 /\ Buf(ResultObj)' = Buf(o)'
                 /\ sigs[o].domain = "time" => Buf(ResultObj)' = Buf(o)
                 /\ sigs'[ResultObj].data.buf # sigs'[o].data.buf]_vars

\* add((s, 0), 'time') on a Signal labelled rms that was in the frequency
\* domain
C29_Witness ==
    /\ op.name = "arith" /\ op.a = "add" /\ args.domain = "time"
    /\ args.data[1] = SigOperand(1)
    /\ args.data[2] = ValOperand(NumArr(<<>>, "int64", 0))
    /\ err = "" /\ result = ResSig(ResultObj)
    /\ sigs[1].fft_norm = "rms"
    /\ calls # <<>>

----------------------------------------------------------------------------
(* Properties of times and frequencies of a Signal, checked under Spec *)

\* t = s.times returns the n_samples numbers k / sampling_rate of the Signal
\* as it is now, and changes nothing
TimesDerived ==
    op'.name = "times" =>
        /\ err' = ""
        /\ result' = ResArr(arange_over(sigs'[op'.o].n_samples,
                                        sigs'[op'.o].sampling_rate))
        /\ sigs' = sigs /\ heap' = heap

\* f = s.frequencies returns floor(n_samples / 2) + 1 bin frequencies for
\* the n_samples and sampling_rate of the Signal as it is now
FrequenciesDerived ==
    /\ err' = ""
    /\ result'.k = "array"
    /\ result'.a.shape = <<sigs'[op'.o].n_samples \div 2 + 1>>
    /\ result'.a = rfftfreq(sigs'[op'.o].n_samples, sigs'[op'.o].sampling_rate)
    /\ sigs' = sigs /\ heap' = heap

C27_WitnessTimes ==
    /\ op.name = "times" /\ err = ""
    /\ sigs[1].domain = "freq" /\ sigs[1].n_samples = 3
    /\ result.a.shape = <<3>>

----------------------------------------------------------------------------
(* Properties of the constructor and of a change of convention there and
   back, checked under SpecMake *)

\* C28: for a Signal in the frequency domain with convention A, setting
\* fft_norm to any convention B and then back to A restores the frequency
\* buffer the Signal had before, and the Signal is labelled A again.
C28_ThereAndBack ==
    [][(op'.name = "fft_norm=,fft_norm=" /\ sigs[1].domain = "freq") =>
          /\ err' = ""
          /\ Buf(1)' = Buf(1)
          /\ sigs'[1].fft_norm = sigs[1].fft_norm
          /\ sigs'[1].domain = "freq"
          /\ sigs'[1].n_samples = sigs[1].n_samples]_vars

\* a spectrum labelled rms that came out of the transform went to amplitude
\* and back
C28_Witness ==
    /\ op.name = "fft_norm=,fft_norm=" /\ op.a = "amplitude" /\ err = ""
    /\ sigs[1].domain = "freq" /\ sigs[1].fft_norm = "rms"
    /\ Len(calls) = 4
    /\ calls[2].k = "norm" /\ calls[2].c = "amplitude"
    /\ calls[3].k = "denorm" /\ calls[3].c = "amplitude"
    /\ Len(Buf(1).rows[1]) = 3 /\ Buf(1).rows[1][3].k = "norm"

\* the n_samples a constructor call was given
GivenSamples == args.data[2].a.rows[1][1].n

\* the trailing-axis length of the data a constructor call was given
GivenBins == RowLen(args.data[1].a.shape)

\* C30: constructing a Signal from frequency-domain data without n_samples
\* emits one warning, and the Signal constructed has n_samples
\* 2 * (n_bins - 1), n_bins being the trailing-axis length of the data; it is
\* constructed whenever the data has two bins or more and the convention is
\* a valid one.
C30_FreqWithoutSamples ==
    [][(op'.name = "Signal" /\ args'.domain = "freq"
          /\ GivenSamples' = None) =>
          /\ warns' = 1
          /\ err' = "" =>
                 /\ sigs'[1].n_samples = 2 * (GivenBins' - 1)
                 /\ sigs'[1].domain = "freq"
                 /\ RowLen(sigs'[1].data.shape) = GivenBins'
          /\ (GivenBins' >= 2 /\ op'.a \in VALID_FFT_NORMS) => err' = ""]_vars

\* a Signal of four samples was constructed from three bins
C30_Witness ==
    /\ op.name = "Signal" /\ Len(args.data) = 2 /\ args.domain = "freq"
    /\ GivenSamples = None /\ GivenBins = 3
    /\ err = "" /\ warns = 1
    /\ sigs[1].n_samples = 4 /\ sigs[1].domain = "freq"

----------------------------------------------------------------------------
(* Properties of TimeData and FrequencyData, checked under SpecData *)

\* the coordinate vector of a data object: its times or its frequencies
Coordinate(o) ==
    IF sigs[o].class = "TimeData" THEN sigs[o].times ELSE sigs[o].frequencies

StrictlyIncreasing(v) == \A i \in 1..(Len(v) - 1) : v[i] < v[i + 1]

\* C26: in every reachable state of a TimeData or FrequencyData, after
\* construction and after any write through its time / freq setter, the
\* length of its times / frequencies vector equals the trailing-axis length
\* of its buffer, and the vector is strictly increasing.
C26_CoordinatesFit ==
    \A o \in DOMAIN sigs :
        /\ sigs[o].class \in {"TimeData", "FrequencyData"}
        /\ Len(Coordinate(o)) = RowLen(sigs[o].data.shape)
        /\ StrictlyIncreasing(Coordinate(o))

\* what does hold: the vector is strictly increasing, and it fits the buffer
\* the object was constructed with
C26_CoordinatesKept ==
    /\ \A o \in DOMAIN sigs : StrictlyIncreasing(Coordinate(o))
    /\ \A o \in DOMAIN sigs :
           op.name \in {"TimeData", "FrequencyData"} =>
               Len(Coordinate(o)) = RowLen(sigs[o].data.shape)

----------------------------------------------------------------------------
(* More properties of the constructor, checked under SpecMake *)

\* C31: every successfully constructed Signal satisfies the domain/length
\* invariant: a time-domain construction has n_samples equal to the
\* trailing-axis length of the data, and a frequency-domain construction with
\* an explicit n_samples succeeds only if floor(n_samples/2)+1 equals the
\* trailing-axis length of the data, and fails with an error otherwise.
C31_ConstructedFits ==
    [][op'.name = "Signal" =>
          /\ (args'.domain = "time" /\ err' = "") =>
                 sigs'[1].n_samples = GivenBins'
          /\ (args'.domain = "freq" /\ GivenSamples' # None) =>
                 /\ err' = "" => /\ sigs'[1].n_samples = GivenSamples'
                                 /\ GivenSamples' \div 2 + 1 = GivenBins'
                 /\ GivenSamples' \div 2 + 1 # GivenBins' => err' # ""]_vars

\* the time-domain half, and what Signals the frequency-domain half lets
\* through: any n_samples from 1 to 2 * n_bins - 1
C31_ConstructedTime ==
    [][op'.name = "Signal" =>
          /\ (args'.domain = "time" /\ err' = "") =>
                 /\ sigs'[1].n_samples = GivenBins'
                 /\ DomainLength(1)'
          /\ (args'.domain = "freq" /\ GivenSamples' # None /\ err' = "") =>
                 /\ sigs'[1].n_samples = GivenSamples'
                 /\ GivenSamples' \in 1..(2 * GivenBins' - 1)]_vars

C32_WitnessOdd ==
    /\ op.name = "Signal" /\ Len(args.data) = 2 /\ args.domain = "freq"
    /\ GivenSamples = 5 /\ GivenBins = 3
    /\ err = "" /\ sigs[1].n_samples = 5

----------------------------------------------------------------------------
(* The convention label and the buffer, checked under SpecSync *)

\* the spectrum of object o with the convention named by its label taken off:
\* what the label says the buffer is a normalization of
Raw(o) ==
    IF sigs[o].domain = "freq"
    THEN normalization(Buf(o), sigs[o].n_samples, sigs[o].sampling_rate,
                       sigs[o].fft_norm, TRUE)
    ELSE rfft(Buf(o), sigs[o].n_samples, sigs[o].sampling_rate, "none")

IsNormToken(t) == t.k \in {"norm", "denorm"}

\* the normalizations and inverse normalizations left in the rows of a
NormsOf(a) == [i \in DOMAIN a.rows |-> SelectSeq(a.rows[i], IsNormToken)]

\* operand d of a call as time data
TimeOf(d) ==
    IF ~IsSignal(d) THEN d.a
    ELSE IF sigs[d.o].domain = "time" THEN Buf(d.o)
    ELSE Transformed(d.o, "time")

\* C33: the convention label never desynchronizes from the buffer.  Data the
\* client supplies (construction, a write) is taken to be normalized as the
\* label says; from there on every read and every change of fft_norm leaves
\* Raw, the buffer with the labelled convention taken off, as it was, in
\* either domain; a time-domain write stores the data as they are; and the
\* Signal an arithmetic call returns holds, in the frequency domain, the
\* combination of the operands' Raw normalized with its own label, in the
\* time domain the combination of the operands' time data.
C33_LabelInSync ==
    [][/\ op'.name \in {"time", "freq", "fft_norm="} =>
              /\ NormsOf(Raw(1))' = NormsOf(Raw(1))
              /\ DomainLength(1) => Raw(1)' = Raw(1)
       /\ op'.name = "time=" =>
              /\ sigs'[1].domain = "time"
              /\ \A i \in DOMAIN Buf(1)'.rows : Len(Buf(1)'.rows[i]) = 1
       /\ op'.name = "arith" =>
              LET data == args'.data
                  n == sigs[1].n_samples
              IN  /\ NormsOf(Raw(1))' = NormsOf(Raw(1))
                  /\ DomainLength(1) => Raw(1)' = Raw(1)
                  /\ err' = "" =>
                         /\ result' = ResSig(ResultObj)
                         /\ sigs'[ResultObj].domain = args'.domain
                         /\ sigs'[ResultObj].fft_norm = sigs[1].fft_norm
                         /\ args'.domain = "freq" =>
                                Raw(ResultObj)' =
                                    operation(args'.fn, Entering(data[1], n),
                                              Entering(data[2], n))
                         /\ args'.domain = "time" =>
                                Buf(ResultObj)' =
                                    operation(args'.fn, TimeOf(data[1]),
                                              TimeOf(data[2]))
       /\ op'.name = "rebind" =>
              /\ Raw(1)' = Raw(ResultObj)
              /\ sigs'[1].fft_norm = sigs[ResultObj].fft_norm]_vars

\* a Signal labelled rms, bound to the result of an earlier call, has been
\* multiplied with itself in the frequency domain
C33_Witness ==
    /\ op.name = "arith" /\ args.fn = "multiply" /\ args.domain = "freq"
    /\ args.data = <<SigOperand(1), SigOperand(1)>>
    /\ err = "" /\ ResultObj \in DOMAIN sigs
    /\ sigs[1].fft_norm = "rms" /\ sigs[ResultObj].fft_norm = "rms"
    /\ sigs[ResultObj].domain = "freq"
    /\ sigs[1].domain = "freq"
    /\ Len(Buf(1).rows[1]) > 3 /\ Buf(1).rows[1][3].k = "add"
    /\ Last(Buf(ResultObj).rows[1]).k = "norm"

----------------------------------------------------------------------------
(* More properties of iteration, checked under SpecIter *)

\* C34: Signals yielded at different steps of one iteration are independent
\* values: the Signal a step returned still holds the data of its position
\* after the iterator has advanced, so the step that follows returns another
\* object and leaves the one returned before as it was.
C34_YieldedIndependent ==
    [][(/\ op'.name = "next" /\ err' = ""
        /\ iter.pos > 0 /\ iter.iterated_sig \in DOMAIN sigs) =>
          /\ result'.o # iter.iterated_sig
          /\ sigs'[iter.iterated_sig] = sigs[iter.iterated_sig]
          /\ Buf(IterObj)' = Buf(IterObj)]_vars

\* C35: a step of an iteration raises RuntimeError only if the domain tag of
\* the Signal iterated over has changed: when the tag is what it was at the
\* previous step, the step does not raise it, whatever the client did with
\* the Signals the iteration returned.
C35_OnlyDomainChangeRaises ==
    [][(/\ op'.name = "next"
        /\ iter.tag \in VALID_DOMAINS
        /\ sigs[1].domain = iter.tag) =>
          err' # "RuntimeError"]_vars

\* every step that returns a Signal takes the iterator one position further,
\* within the first axis of the array it runs over
C36_YieldsBounded ==
    [][(op'.name = "next" /\ err' = "") =>
          /\ iter.pos < iter.array.shape[1]
          /\ iter'.pos = iter.pos + 1]_vars

\* C36: iteration terminates: an iterator over a Signal whose domain is not
\* changed returns one Signal per position of the axis it runs over, each
\* step a position further, and then signals exhaustion with StopIteration;
\* it never goes on for ever.
C36_IterationTerminates ==
    /\ [][(op'.name = "next" /\ err' = "") =>
             /\ iter.pos < iter.array.shape[1]
             /\ iter'.pos = iter.pos + 1]_vars
    /\ (iter.signal # 0) ~> (op.name = "next" /\ err = "StopIteration")

----------------------------------------------------------------------------
(* Two iterators over one Signal, checked under SpecTwo *)

\* the rows of the Signal iterated over at position i of its first axis
Position(i) ==
    LET per == NRows(sigs[1].data.shape) \div sigs[1].data.shape[1]
    IN  SubSeq(Buf(1).rows, i * per + 1, (i + 1) * per)

\* C37: two iterators made from one Signal that is not modified, advanced in
\* any interleaving, each return the full sequence of positions from the
\* start, and advancing one never changes the Signal the other returned
\* last, nor where the other is.
C37_TwoIterators ==
    [][/\ (op'.name = "iter" /\ op'.a = "") =>
             /\ iter'.pos = 0
             /\ iter'.other = iter.other
       /\ (op'.name = "iter" /\ op'.a = "second") =>
             /\ iter'.other.pos = 0
             /\ iter'.pos = iter.pos
             /\ iter'.array = iter.array
       /\ (op'.name = "next" /\ op'.a = "") =>
             /\ IF iter.pos < sigs[1].data.shape[1]
                THEN /\ err' = ""
                     /\ result' = ResSig(IterObj)
                     /\ Buf(IterObj)'.rows = Position(iter.pos)
                     /\ iter'.pos = iter.pos + 1
                ELSE err' = "StopIteration"
             /\ iter'.other = iter.other
             /\ OtherObj \in DOMAIN sigs =>
                    /\ sigs'[OtherObj] = sigs[OtherObj]
                    /\ Buf(OtherObj)' = Buf(OtherObj)
       /\ (op'.name = "next" /\ op'.a = "second") =>
             /\ IF iter.other.pos < sigs[1].data.shape[1]
                THEN /\ err' = ""
                     /\ result' = ResSig(OtherObj)
                     /\ Buf(OtherObj)'.rows = Position(iter.other.pos)
                     /\ iter'.other.pos = iter.other.pos + 1
                ELSE err' = "StopIteration"
             /\ iter'.pos = iter.pos
             /\ iter'.array = iter.array
             /\ IterObj \in DOMAIN sigs =>
                    /\ sigs'[IterObj] = sigs[IterObj]
                    /\ Buf(IterObj)' = Buf(IterObj)]_vars

\* the second iterator has just returned position 0 while the first is
\* through its last position and still holds what it returned there
C37_Witness ==
    /\ op = Opr("next", 1, "second")
    /\ err = ""
    /\ iter.pos = 2
    /\ iter.other.pos = 1
    /\ Buf(IterObj).rows = Position(1)
    /\ Buf(OtherObj).rows = Position(0)
    /\ Position(0) # Position(1)

----------------------------------------------------------------------------
(* Validation before conversion, checked under SpecValid *)

\* the call c is one _assert_match_for_arithmetic rejects: data that is no
\* tuple, a domain that is none, Signals that differ in sampling_rate or
\* n_samples, a number of a dtype that is not taken, a complex number in the
\* time domain
FailsValidation(c) ==
    \/ ~c.tuple
    \/ c.domain \notin VALID_DOMAINS
    \/ Mismatch(c.data)
    \/ \E i \in DOMAIN c.data :
          /\ ~IsSignal(c.data[i])
          /\ \/ c.data[i].a.kind \notin dtypes
             \/ c.data[i].a.kind \in ComplexTypes /\ c.domain = "time"

\* C39: arithmetic validates before it touches any operand: a call that
\* fails validation raises ValueError and leaves every Signal operand as it
\* was, in the domain it was in and with the buffer it had; no transform and
\* no normalization has been called.
C39_ValidatedFirst ==
    [][(op'.name = "arith" /\ FailsValidation(args')) =>
          /\ err' = "ValueError"
          /\ result' = ResNone
          /\ calls' = <<>>
          /\ sigs' = sigs
          /\ heap' = heap]_vars

\* a call in the frequency domain on a Signal and a number of a dtype that
\* is not taken has failed, and the Signal is still in the time domain
C39_Witness ==
    /\ op.name = "arith" /\ err = "ValueError"
    /\ args.domain = "freq" /\ args.tuple
    /\ args.data[1] = SigOperand(1)
    /\ ~IsSignal(args.data[2]) /\ args.data[2].a.kind = "bool"
    /\ sigs[1].domain = "time"
    /\ calls = <<>>

\* a call in the frequency domain on two Signals that differ in
\* sampling_rate has failed, and both are still in the time domain
C39_WitnessMismatch ==
    /\ op.name = "arith" /\ err = "ValueError"
    /\ args.domain = "freq" /\ args.tuple
    /\ args.data = <<SigOperand(1), SigOperand(2)>>
    /\ sigs[1].sampling_rate # sigs[2].sampling_rate
    /\ sigs[1].domain = "time" /\ sigs[2].domain = "time"

----------------------------------------------------------------------------
(* Channel assignment between domains, checked under SpecAssign *)

\* the data of object v in the domain object o is in
InDomainOf(v, o) ==
    IF sigs[v].domain = sigs[o].domain THEN Buf(v)
    ELSE Transformed(v, sigs[o].domain)

\* C38: channel assignment never mixes domains: whenever s[key] = v
\* succeeds, the channels of s the key selects hold the data of v in the
\* domain s is in, also when v is in the other domain.
C38_AssignedInDomain ==
    [][\A o \in {1, 2}, v \in {1, 2}, key \in ClientKeys :
          (/\ op' = Opr("setitem", o, key)
           /\ args'.data = <<SigOperand(v)>>
           /\ err' = "") =>
             /\ sigs'[o].domain = sigs[o].domain
             /\ \A i \in DOMAIN View(Cur, Item(sigs[o].data, key))'.rows :
                    View(Cur, Item(sigs[o].data, key))'.rows[i] =
                        InDomainOf(v, o).rows[
                            IF Len(InDomainOf(v, o).rows) = 1 THEN 1 ELSE i]]_vars

----------------------------------------------------------------------------
(* The visible lines of a plot, checked under SpecKeys *)

\* the positions in axes.lines of the lines that are visible
VisibleLines ==
    {i \in 0..(Len(axis_modifier.lines) - 1) : axis_modifier.lines[i + 1]}

\* C40: after any sequence of cycle-forward, cycle-backward and toggle-all
\* key events on a plot that started with every line visible, the index of
\* the cycle is within 0..n_lines-1 and current_line is the line at it, and
\* either all_visible is True and every line is visible, or all_visible is
\* False and exactly one line is visible, the current line.
C40_LineVisibility ==
    /\ axis_modifier.index \in 0..(Len(axis_modifier.lines) - 1)
    /\ axis_modifier.current_line = axis_modifier.index
    /\ IF axis_modifier.all_visible
       THEN VisibleLines = 0..(Len(axis_modifier.lines) - 1)
       ELSE VisibleLines = {axis_modifier.current_line}

\* cycling backward from the first of three lines has wrapped to the last,
\* which alone is visible
C40_Witness ==
    /\ op = Opr("key", 0, "[")
    /\ axis_modifier.lines = <<FALSE, FALSE, TRUE>>
    /\ axis_modifier.index = 2
    /\ ~axis_modifier.all_visible

\* toggle-all has hidden all lines of three but the second, the current one
C40_WitnessToggle ==
    /\ op = Opr("key", 0, "a")
    /\ axis_modifier.lines = <<FALSE, TRUE, FALSE>>
    /\ axis_modifier.index = 1
    /\ ~axis_modifier.all_visible

=============================================================================
